---- MODULE Spec2Model ----
(***************************************************************************)
(* BlueV workflow core: the workflow engine (graph, Kahn ordering,        *)
(* fail-fast execution), the execution context (flags, pause gate,        *)
(* history, metrics) and the node contract (state, inputs, outputs).      *)
(***************************************************************************)
EXTENDS Integers, Sequences, FiniteSets, TLC

(* ------------------------------------------------------------------ *)
(* Bounds                                                              *)
(* ------------------------------------------------------------------ *)
MaxConns == 2

MaxRunConns == 2

MaxValue == 2

\* handlers registered on one context, handler invocations recorded, and
\* record_node_execution calls between two start_execution calls
MaxHandlers == 3

MaxInvoked == 2

MaxHistory == 2

(* ------------------------------------------------------------------ *)
(* Values and node classes                                             *)
(* ------------------------------------------------------------------ *)
None == 0

Values == 0..MaxValue

NodeIds == {"A", "B", "C"}

Range(s) == {s[i] : i \in DOMAIN s}

EmptyMap == [k \in {} |-> None]

\* dict.get(key): the stored value, None when the key is absent
Get(d, k) == IF k \in DOMAIN d THEN d[k] ELSE None

\* d[k] = v on a dict
Put(d, k, v) == [j \in (DOMAIN d) \cup {k} |-> IF j = k THEN v ELSE d[j]]

\* NodeInput descriptors of the three node instances (name, default_value,
\* required, validation_rules): A and B are one class, C another.
NodeInput(name, default_value, required, max_value) ==
    [name |-> name, default_value |-> default_value, required |-> required,
     max_value |-> max_value]

get_input_spec(n) ==
    IF n = "C"
    THEN << NodeInput("y", None, TRUE, None), NodeInput("z", 1, FALSE, 1) >>
    ELSE << NodeInput("y", None, FALSE, None) >>

get_output_spec(n) == << "x" >>

InputNames(n) == {get_input_spec(n)[i].name : i \in DOMAIN get_input_spec(n)}

OutputNames(n) == Range(get_output_spec(n))

(* ------------------------------------------------------------------ *)
(* NodeInput.validate                                                  *)
(* ------------------------------------------------------------------ *)
_validate_required(spec, value) == ~(spec.required /\ value = None)

\* every non-None value of the model is an int and every port is int-typed;
\* None is not an int and int(None) raises TypeError
_validate_data_type(spec, value) ==
    IF value = None /\ ~spec.required THEN TRUE ELSE value # None

\* max_value is the only rule the modelled node classes declare; it is
\* only ever applied to a non-None value here (z always holds its default)
_validate_rules(spec, value) ==
    IF spec.max_value = None THEN TRUE ELSE ~(value > spec.max_value)

\* _validate_numeric_range compares the value with the bound: for None
\* (accepted by the two checks before it on a port that is not required)
\* the comparison raises TypeError
validate_raises(spec, value) ==
    /\ _validate_required(spec, value)
    /\ _validate_data_type(spec, value)
    /\ spec.max_value # None
    /\ value = None

validate(spec, value) ==
    /\ _validate_required(spec, value)
    /\ _validate_data_type(spec, value)
    /\ _validate_rules(spec, value)

_get_input_spec_by_name(n, name) ==
    SelectSeq(get_input_spec(n), LAMBDA s : s.name = name)

\* BaseNode.__init__ / _initialize_default_inputs
DefaultInputs(n) ==
    LET specs == get_input_spec(n)
        named == {specs[i].name : i \in {j \in DOMAIN specs : specs[j].default_value # None}}
    IN  [k \in named |->
            specs[CHOOSE i \in DOMAIN specs : specs[i].name = k].default_value]

(* ------------------------------------------------------------------ *)
(* State                                                               *)
(* ------------------------------------------------------------------ *)
VARIABLES
    nodes,              \* WorkflowEngine.nodes: node ids in insertion order
    connections,        \* WorkflowEngine.connections
    state,              \* BaseNode.state of every node instance
    inputs,             \* BaseNode.inputs
    outputs,            \* BaseNode.outputs
    is_running,         \* ExecutionContext flags
    is_cancelled,
    is_paused,
    pause_event,        \* asyncio.Event value of the pause gate
    waiter,             \* future of the scheduler inside _pause_event.wait()
    node_outputs,       \* ExecutionContext.node_outputs
    execution_history,
    failed_nodes,
    nodes_executed,     \* metrics
    nodes_failed,
    max_execution_time,
    deadline_passed,    \* now - metrics.start_time > max_execution_time
    events,             \* trigger_callback calls of the run, in order
    callbacks,          \* ExecutionContext.callbacks: event type -> handlers
    invoked,            \* the handler invocations made so far, in order
    pc,                 \* position of the execute_workflow coroutine
    execution_order,    \* locals of execute_workflow
    idx,
    results,
    ret,                \* outcome of the most recent call
    pause_pending,      \* pause_execution called, no resume/cancel call since
    _node_classes,      \* NodeRegistry._node_classes: type -> class
    _categories,        \* NodeRegistry._categories: category -> set of types
    _metadata_cache,    \* NodeRegistry._metadata_cache: type -> metadata
    _lock,              \* NodeRegistry._lock: "free" or the thread holding it
    threads,            \* the calls of the threads using the registry
    previous            \* what the caller kept of the run before this one

engineVars == << nodes, connections >>

nodeVars == << state, inputs, outputs >>

ctxVars == << is_running, is_cancelled, is_paused, pause_event, waiter,
              node_outputs, execution_history, failed_nodes, nodes_executed,
              nodes_failed, max_execution_time, deadline_passed, events,
              invoked >>

runVars == << pc, execution_order, idx, results, pause_pending >>

regVars == << _node_classes, _categories, _metadata_cache >>

threadVars == << _lock, threads >>

vars == << nodes, connections, state, inputs, outputs, is_running,
           is_cancelled, is_paused, pause_event, waiter, node_outputs,
           execution_history, failed_nodes, nodes_executed, nodes_failed,
           max_execution_time, deadline_passed, events, invoked, pc,
           execution_order, idx, results, _node_classes, _categories,
           _metadata_cache, _lock, threads, callbacks, previous, ret,
           pause_pending >>

NodeConnection(from_node_id, from_output, to_node_id, to_input) ==
    [from_node_id |-> from_node_id, from_output |-> from_output,
     to_node_id |-> to_node_id, to_input |-> to_input]

\* port names passed by callers ("bad" is declared nowhere, "z" only on C)
OutputArgs == {"x", "bad"}

InputArgs == {"y", "z"}

(* ------------------------------------------------------------------ *)
(* WorkflowEngine: graph operations                                    *)
(* ------------------------------------------------------------------ *)
Ret(op, raised, value) == [op |-> op, raised |-> raised, value |-> value]

NoRet == Ret("none", "none", << >>)

\* ExecutionContext.__init__: the callbacks dict has these seven keys
CallbackKeys == {"workflow_start", "workflow_complete", "workflow_error",
                 "node_start", "node_complete", "node_error", "progress_update"}

NoHandlers == [k \in CallbackKeys |-> << >>]

\* threads that call the registry, and what is known of a thread's call:
\* its position, the operation and arguments, the registry contents it
\* read first, and what it returned or raised
Threads == {"T1", "T2"}

ThreadCall(op, t, c, category, keyword) ==
    [op |-> op, t |-> t, c |-> c, category |-> category, keyword |-> keyword]

NoCall == ThreadCall("none", "", "", "", "")

NoResult == [raised |-> "none", value |-> {}]

IdleThread == [pc |-> "idle", call |-> NoCall, seen |-> << >>, result |-> NoResult]

\* state of a freshly constructed context, node set, coroutine and registry
\* no run has ended yet
NoPrevious ==
    [ended |-> FALSE, cancelled |-> FALSE, raised |-> "none", results |-> EmptyMap,
     state |-> [n \in NodeIds |-> "READY"], execution_history |-> << >>]

FreshRest ==
    /\ previous = NoPrevious
    /\ state = [n \in NodeIds |-> "READY"]
    /\ inputs = [n \in NodeIds |-> DefaultInputs(n)]
    /\ outputs = [n \in NodeIds |-> EmptyMap]
    /\ is_running = FALSE
    /\ is_cancelled = FALSE
    /\ is_paused = FALSE
    /\ pause_event = TRUE
    /\ waiter = "none"
    /\ node_outputs = EmptyMap
    /\ execution_history = << >>
    /\ failed_nodes = {}
    /\ nodes_executed = 0
    /\ nodes_failed = 0
    /\ deadline_passed = FALSE
    /\ events = << >>
    /\ callbacks = NoHandlers
    /\ invoked = << >>
    /\ pc = "idle"
    /\ execution_order = << >>
    /\ idx = 1
    /\ results = EmptyMap
    /\ ret = NoRet
    /\ pause_pending = FALSE
    /\ _node_classes = EmptyMap
    /\ _categories = EmptyMap
    /\ _metadata_cache = EmptyMap
    /\ _lock = "free"
    /\ threads = [th \in Threads |-> IdleThread]

add_node(n) ==
    /\ pc = "idle"
    /\ IF n \in Range(nodes)
       THEN /\ ret' = Ret("add_node", "ValueError", << >>)
            /\ UNCHANGED engineVars
       ELSE /\ nodes' = Append(nodes, n)
            /\ ret' = Ret("add_node", "none", << >>)
            /\ UNCHANGED connections
    /\ UNCHANGED << nodeVars, ctxVars, runVars >>
    /\ UNCHANGED << regVars, threadVars, callbacks, previous >>

\* mutant: the node's connections are left in the list
remove_node_KeepConnections(n) ==
    /\ pc = "idle"
    /\ IF n \notin Range(nodes)
       THEN /\ ret' = Ret("remove_node", "none", FALSE)
            /\ UNCHANGED engineVars
       ELSE /\ nodes' = SelectSeq(nodes, LAMBDA m : m # n)
            /\ ret' = Ret("remove_node", "none", TRUE)
            /\ UNCHANGED connections
    /\ UNCHANGED << nodeVars, ctxVars, runVars >>
    /\ UNCHANGED << regVars, threadVars, callbacks, previous >>

\* mutant: only the connections leaving the node are dropped
remove_node_OutgoingOnly(n) ==
    /\ pc = "idle"
    /\ IF n \notin Range(nodes)
       THEN /\ ret' = Ret("remove_node", "none", FALSE)
            /\ UNCHANGED engineVars
       ELSE /\ nodes' = SelectSeq(nodes, LAMBDA m : m # n)
            /\ connections' = SelectSeq(connections, LAMBDA c : c.from_node_id # n)
            /\ ret' = Ret("remove_node", "none", TRUE)
    /\ UNCHANGED << nodeVars, ctxVars, runVars >>
    /\ UNCHANGED << regVars, threadVars, callbacks, previous >>

remove_node(n) ==
    /\ pc = "idle"
    /\ IF n \notin Range(nodes)
       THEN /\ ret' = Ret("remove_node", "none", FALSE)
            /\ UNCHANGED engineVars
       ELSE /\ nodes' = SelectSeq(nodes, LAMBDA m : m # n)
            /\ connections' = SelectSeq(connections,
                    LAMBDA c : c.from_node_id # n /\ c.to_node_id # n)
            /\ ret' = Ret("remove_node", "none", TRUE)
    /\ UNCHANGED << nodeVars, ctxVars, runVars >>
    /\ UNCHANGED << regVars, threadVars, callbacks, previous >>

\* mutant: the duplicate test is left out
connect_result_AppendAlways(ns, cs, f, fo, t, ti) ==
    IF \/ f \notin Range(ns)
       \/ t \notin Range(ns)
       \/ fo \notin OutputNames(f)
       \/ ti \notin InputNames(t)
    THEN [raised |-> "ValueError", connections |-> cs, logged |-> "none"]
    ELSE [raised |-> "none",
          connections |-> Append(cs, NodeConnection(f, fo, t, ti)),
          logged |-> "created"]

\* mutant: the port names are not tested against the specs
connect_result_NoPortCheck(ns, cs, f, fo, t, ti) ==
    IF f \notin Range(ns) \/ t \notin Range(ns)
    THEN [raised |-> "ValueError", connections |-> cs, logged |-> "none"]
    ELSE IF \E i \in DOMAIN cs : cs[i] = NodeConnection(f, fo, t, ti)
         THEN [raised |-> "none", connections |-> cs, logged |-> "exists"]
         ELSE [raised |-> "none",
               connections |-> Append(cs, NodeConnection(f, fo, t, ti)),
               logged |-> "created"]

\* connect_nodes on node list ns and connection list cs: the exception
\* raised, the connection list afterwards and the line logged (warning
\* "exists" for a duplicate, info "created" for a new connection)
connect_result(ns, cs, f, fo, t, ti) ==
    IF \/ f \notin Range(ns)
       \/ t \notin Range(ns)
       \/ fo \notin OutputNames(f)
       \/ ti \notin InputNames(t)
    THEN [raised |-> "ValueError", connections |-> cs, logged |-> "none"]
    ELSE IF \E i \in DOMAIN cs : cs[i] = NodeConnection(f, fo, t, ti)
         THEN [raised |-> "none", connections |-> cs, logged |-> "exists"]
         ELSE [raised |-> "none",
               connections |-> Append(cs, NodeConnection(f, fo, t, ti)),
               logged |-> "created"]

connect_nodes(f, fo, t, ti) ==
    /\ pc = "idle"
    /\ LET r == connect_result(nodes, connections, f, fo, t, ti)
       IN  /\ Len(r.connections) <= MaxConns
           /\ connections' = r.connections
           /\ ret' = Ret("connect_nodes", r.raised, r.logged)
    /\ UNCHANGED << nodes, nodeVars, ctxVars, runVars >>
    /\ UNCHANGED << regVars, threadVars, callbacks, previous >>

\* mutant: every connection between the two nodes is removed, whatever its
\* ports
disconnect_result_IgnorePorts(cs, f, fo, t, ti) ==
    LET kept == SelectSeq(cs, LAMBDA c : ~(c.from_node_id = f /\ c.to_node_id = t))
    IN  [connections |-> kept, removed |-> Len(kept) < Len(cs)]

\* disconnect_nodes on connection list cs: the list afterwards and the
\* value returned
disconnect_result(cs, f, fo, t, ti) ==
    LET kept == SelectSeq(cs, LAMBDA c : ~(c = NodeConnection(f, fo, t, ti)))
    IN  [connections |-> kept, removed |-> Len(kept) < Len(cs)]

disconnect_nodes(f, fo, t, ti) ==
    /\ pc = "idle"
    /\ LET r == disconnect_result(connections, f, fo, t, ti)
       IN  /\ connections' = r.connections
           /\ ret' = Ret("disconnect_nodes", "none", r.removed)
    /\ UNCHANGED << nodes, nodeVars, ctxVars, runVars >>
    /\ UNCHANGED << regVars, threadVars, callbacks, previous >>

clear ==
    /\ pc = "idle"
    /\ nodes' = << >>
    /\ connections' = << >>
    /\ ret' = Ret("clear", "none", << >>)
    /\ UNCHANGED << nodeVars, ctxVars, runVars >>
    /\ UNCHANGED << regVars, threadVars, callbacks, previous >>

(* ------------------------------------------------------------------ *)
(* WorkflowEngine.topological_sort (Kahn)                              *)
(* ------------------------------------------------------------------ *)
\* in_degree after "for conn in self.connections: in_degree[to] += 1"
InitInDegree(ns, cs) ==
    [n \in Range(ns) |-> Cardinality({i \in DOMAIN cs : cs[i].to_node_id = n})]

\* graph[u]: the targets of u's connections, in connection order
RECURSIVE graph(_, _)
graph(cs, u) ==
    IF cs = << >> THEN << >>
    ELSE IF Head(cs).from_node_id = u
         THEN << Head(cs).to_node_id >> \o graph(Tail(cs), u)
         ELSE graph(Tail(cs), u)

\* mutant: the decremented in-degree is tested but not kept
RECURSIVE ProcessNeighborsNoStore(_, _, _)
ProcessNeighborsNoStore(nbrs, in_degree, queue) ==
    IF nbrs = << >> THEN [in_degree |-> in_degree, queue |-> queue]
    ELSE LET neighbor == Head(nbrs)
         IN  ProcessNeighborsNoStore(Tail(nbrs), in_degree,
                 IF in_degree[neighbor] - 1 = 0 THEN Append(queue, neighbor) ELSE queue)

\* "for neighbor in graph[current]": decrement, enqueue on reaching zero
RECURSIVE ProcessNeighbors(_, _, _)
ProcessNeighbors(nbrs, in_degree, queue) ==
    IF nbrs = << >> THEN [in_degree |-> in_degree, queue |-> queue]
    ELSE LET neighbor == Head(nbrs)
             d == [in_degree EXCEPT ![neighbor] = @ - 1]
         IN  ProcessNeighbors(Tail(nbrs), d,
                 IF d[neighbor] = 0 THEN Append(queue, neighbor) ELSE queue)

\* mutant: the queue is used as a stack (pop instead of popleft)
RECURSIVE KahnLoop_Lifo(_, _, _, _)
KahnLoop_Lifo(cs, queue, result, in_degree) ==
    IF queue = << >> THEN result
    ELSE LET current == queue[Len(queue)]
             step == ProcessNeighbors(graph(cs, current), in_degree,
                                      SubSeq(queue, 1, Len(queue) - 1))
         IN  KahnLoop_Lifo(cs, step.queue, Append(result, current), step.in_degree)

\* "while queue": popleft, append to result, process the neighbours
RECURSIVE KahnLoop(_, _, _, _)
KahnLoop(cs, queue, result, in_degree) ==
    IF queue = << >> THEN result
    ELSE LET current == Head(queue)
             step == ProcessNeighbors(graph(cs, current), in_degree, Tail(queue))
         IN  KahnLoop(cs, step.queue, Append(result, current), step.in_degree)

KahnResult(ns, cs) ==
    LET in_degree == InitInDegree(ns, cs)
        queue == SelectSeq(ns, LAMBDA n : in_degree[n] = 0)
    IN  KahnLoop(cs, queue, << >>, in_degree)

\* mutant: a cycle is reported only when no node at all could be ordered
topological_sort_EmptyOnly(ns, cs) ==
    LET result == KahnResult(ns, cs)
    IN  IF Len(result) = 0 /\ Len(ns) # 0
        THEN Ret("topological_sort", "CircularDependencyError", << >>)
        ELSE Ret("topological_sort", "none", result)

\* mutant: the nodes are returned in insertion order, connections ignored
topological_sort_InsertionOrder(ns, cs) ==
    Ret("topological_sort", "none", ns)

\* the outcome of topological_sort: the order, or CircularDependencyError
topological_sort(ns, cs) ==
    LET result == KahnResult(ns, cs)
    IN  IF Len(result) # Len(ns)
        THEN Ret("topological_sort", "CircularDependencyError", << >>)
        ELSE Ret("topological_sort", "none", result)

\* a caller invokes engine.topological_sort()
TopologicalSort ==
    /\ pc = "idle"
    /\ ret' = topological_sort(nodes, connections)
    /\ UNCHANGED << engineVars, nodeVars, ctxVars, runVars >>
    /\ UNCHANGED << regVars, threadVars, callbacks, previous >>

(* ------------------------------------------------------------------ *)
(* ExecutionContext                                                    *)
(* ------------------------------------------------------------------ *)
Event(event_type, node_id) == [event_type |-> event_type, node_id |-> node_id]

\* handlers passed to add_callback: one that returns, one that raises
Handlers == {"h_ok", "h_raise"}

HandlerRaises(h) == h = "h_raise"

\* what a handler that records its call has seen
Invocation(h, event_type, node_id, running) ==
    [handler |-> h, event_type |-> event_type, node_id |-> node_id,
     is_running |-> running]

\* handlers of cbs registered for event_type (none for a key not in cbs)
HandlersOf(cbs, event_type) ==
    IF event_type \in DOMAIN cbs THEN cbs[event_type] ELSE << >>

\* mutant: the loop over the handlers ends at the first one that raises
trigger_callback_StopAtRaise(cbs, event_type, node_id, running) ==
    LET hs == HandlersOf(cbs, event_type)
        raising == {i \in DOMAIN hs : HandlerRaises(hs[i])}
        last == IF raising = {} THEN Len(hs)
                ELSE CHOOSE i \in raising : \A j \in raising : i <= j
    IN  [raised |-> FALSE,
         invoked |-> [i \in 1..last |-> Invocation(hs[i], event_type, node_id, running)]]

\* mutant: a handler's exception ends the loop and leaves trigger_callback
trigger_callback_Propagate(cbs, event_type, node_id, running) ==
    LET hs == HandlersOf(cbs, event_type)
        raising == {i \in DOMAIN hs : HandlerRaises(hs[i])}
        last == IF raising = {} THEN Len(hs)
                ELSE CHOOSE i \in raising : \A j \in raising : i <= j
    IN  [raised |-> raising # {},
         invoked |-> [i \in 1..last |-> Invocation(hs[i], event_type, node_id, running)]]

\* ExecutionContext.trigger_callback: every handler of the event is called
\* in list order inside try/except Exception; nothing is raised
trigger_callback(cbs, event_type, node_id, running) ==
    LET hs == HandlersOf(cbs, event_type)
    IN  [raised |-> FALSE,
         invoked |-> [i \in DOMAIN hs |-> Invocation(hs[i], event_type, node_id, running)]]

\* consecutive "await context.trigger_callback(...)" statements: an
\* exception leaving one of them skips the rest
RECURSIVE TriggerAll(_, _, _)
TriggerAll(cbs, evs, running) ==
    IF evs = << >> THEN [raised |-> FALSE, fired |-> << >>, invoked |-> << >>]
    ELSE LET t == trigger_callback(cbs, Head(evs).event_type, Head(evs).node_id, running)
         IN  IF t.raised
             THEN [raised |-> TRUE, fired |-> << Head(evs) >>, invoked |-> t.invoked]
             ELSE LET rest == TriggerAll(cbs, Tail(evs), running)
                  IN  [raised |-> rest.raised,
                       fired |-> << Head(evs) >> \o rest.fired,
                       invoked |-> t.invoked \o rest.invoked]

\* asyncio.Event.set(): a future already waiting is resolved for good
EventSetWaiter == IF ~pause_event /\ waiter = "pending" THEN "done" ELSE waiter

get_node_output(outs, node_id, output_name) ==
    IF node_id \notin DOMAIN outs THEN None ELSE Get(outs[node_id], output_name)

check_timeout == max_execution_time # None /\ deadline_passed

pause_execution ==
    /\ IF is_running
       THEN is_paused' = TRUE /\ pause_event' = FALSE
       ELSE UNCHANGED << is_paused, pause_event >>
    /\ pause_pending' = (pc \in {"loop", "waiting", "prepare", "running"})
    /\ UNCHANGED << engineVars, nodeVars, is_running, is_cancelled, waiter,
                    node_outputs, execution_history, failed_nodes, nodes_executed,
                    nodes_failed, max_execution_time, deadline_passed, events,
                    invoked, pc, execution_order, idx, results, ret >>
    /\ UNCHANGED << regVars, threadVars, callbacks, previous >>

resume_execution ==
    /\ IF is_paused
       THEN is_paused' = FALSE /\ pause_event' = TRUE /\ waiter' = EventSetWaiter
       ELSE UNCHANGED << is_paused, pause_event, waiter >>
    /\ pause_pending' = FALSE
    /\ UNCHANGED << engineVars, nodeVars, is_running, is_cancelled,
                    node_outputs, execution_history, failed_nodes, nodes_executed,
                    nodes_failed, max_execution_time, deadline_passed, events,
                    invoked, pc, execution_order, idx, results, ret >>
    /\ UNCHANGED << regVars, threadVars, callbacks, previous >>

\* mutant: cancel does not open the pause gate
cancel_execution_NoGate ==
    /\ is_cancelled' = TRUE
    /\ is_running' = FALSE
    /\ pause_pending' = FALSE
    /\ UNCHANGED << engineVars, nodeVars, is_paused, pause_event, waiter,
                    node_outputs, execution_history, failed_nodes, nodes_executed,
                    nodes_failed, max_execution_time, deadline_passed, events,
                    invoked, pc, execution_order, idx, results, ret >>
    /\ UNCHANGED << regVars, threadVars, callbacks, previous >>

cancel_execution ==
    /\ is_cancelled' = TRUE
    /\ is_running' = FALSE
    /\ pause_event' = TRUE
    /\ waiter' = EventSetWaiter
    /\ pause_pending' = FALSE
    /\ UNCHANGED << engineVars, nodeVars, is_paused,
                    node_outputs, execution_history, failed_nodes, nodes_executed,
                    nodes_failed, max_execution_time, deadline_passed, events,
                    invoked, pc, execution_order, idx, results, ret >>
    /\ UNCHANGED << regVars, threadVars, callbacks, previous >>

\* wall-clock time passes max_execution_time after metrics.start_time
DeadlinePasses ==
    /\ pc \in {"loop", "waiting", "prepare", "running"}
    /\ max_execution_time # None
    /\ ~deadline_passed
    /\ deadline_passed' = TRUE
    /\ UNCHANGED << engineVars, nodeVars, is_running, is_cancelled, is_paused,
                    pause_event, waiter, node_outputs, execution_history,
                    failed_nodes, nodes_executed, nodes_failed,
                    max_execution_time, events, invoked, runVars, ret >>
    /\ UNCHANGED << regVars, threadVars, callbacks, previous >>

(* ------------------------------------------------------------------ *)
(* WorkflowEngine.execute_workflow / _execute_node                     *)
(* ------------------------------------------------------------------ *)
Error(node_id, cause) == [node_id |-> node_id, cause |-> cause]

\* mutant: the except block does not call finish_execution
Abort_SkipFinish(errtype, err, evs, inv) ==
    LET t == TriggerAll(callbacks,
                        << Event("workflow_error", ""), Event("workflow_end", "") >>,
                        is_running)
    IN  /\ is_running' = is_running
        /\ events' = evs \o t.fired
        /\ invoked' = inv \o t.invoked
        /\ ret' = IF t.raised
                  THEN Ret("execute_workflow", "Exception", Error("", "callback"))
                  ELSE Ret("execute_workflow", errtype, err)
        /\ pc' = "raised"

\* the outer "except Exception": finish_execution(False), workflow_error,
\* workflow_end, re-raise; evs is the event log up to the raise
\* and inv the handler invocations up to it; an exception leaving a
\* trigger_callback of the except block replaces the one being handled
Abort(errtype, err, evs, inv) ==
    LET t == TriggerAll(callbacks,
                        << Event("workflow_error", ""), Event("workflow_end", "") >>,
                        FALSE)
    IN  /\ is_running' = FALSE
        /\ events' = evs \o t.fired
        /\ invoked' = inv \o t.invoked
        /\ ret' = IF t.raised
                  THEN Ret("execute_workflow", "Exception", Error("", "callback"))
                  ELSE Ret("execute_workflow", errtype, err)
        /\ pc' = "raised"

\* an exception left a trigger_callback inside the try block of
\* execute_workflow
CallbackAbort(evs, inv) == Abort("Exception", Error("", "callback"), evs, inv)

\* the inner "except Exception" around _execute_node: record the failure,
\* node_error, node_end, raise WorkflowExecutionError naming the node
NodeAbortFrom(n, cause, evs, inv) ==
    LET t == TriggerAll(callbacks, << Event("node_error", n), Event("node_end", n) >>,
                        is_running)
    IN  /\ execution_history' = Append(execution_history, n)
        /\ nodes_executed' = nodes_executed + 1
        /\ failed_nodes' = failed_nodes \cup {n}
        /\ nodes_failed' = nodes_failed + 1
        /\ IF t.raised
           THEN CallbackAbort(evs \o t.fired, inv \o t.invoked)
           ELSE Abort("WorkflowExecutionError", Error(n, cause),
                      evs \o t.fired, inv \o t.invoked)

NodeAbort(n, cause) == NodeAbortFrom(n, cause, events, invoked)

\* mutant: the nodes are not reset at the start of a run
ExecuteWorkflow_NoReset ==
    /\ pc = "idle"
    /\ UNCHANGED << state, outputs >>
    \* context.start_execution()
    /\ is_cancelled' = FALSE
    /\ is_paused' = FALSE
    /\ pause_event' = TRUE
    /\ waiter' = EventSetWaiter
    /\ nodes_executed' = 0
    /\ nodes_failed' = 0
    /\ deadline_passed' = FALSE
    /\ execution_history' = << >>
    /\ failed_nodes' = {}
    /\ pause_pending' = FALSE
    /\ LET sorted == topological_sort(nodes, connections)
           t == TriggerAll(callbacks, << Event("workflow_start", "") >>, TRUE)
       IN  IF sorted.raised # "none"
           THEN /\ Abort(sorted.raised, Error("", "none"), << >>, invoked)
                /\ UNCHANGED << execution_order, idx, results >>
           ELSE IF t.raised
           THEN /\ CallbackAbort(t.fired, invoked \o t.invoked)
                /\ UNCHANGED << execution_order, idx, results >>
           ELSE /\ is_running' = TRUE
                /\ execution_order' = sorted.value
                /\ events' = t.fired
                /\ invoked' = invoked \o t.invoked
                /\ results' = EmptyMap
                /\ idx' = 1
                /\ pc' = "loop"
                /\ UNCHANGED ret
    /\ UNCHANGED << engineVars, inputs, node_outputs, max_execution_time >>
    /\ UNCHANGED << regVars, threadVars, callbacks, previous >>

ExecuteWorkflow ==
    /\ pc = "idle"
    /\ state' = [n \in NodeIds |-> IF n \in Range(nodes) THEN "READY" ELSE state[n]]
    /\ outputs' = [n \in NodeIds |-> IF n \in Range(nodes) THEN EmptyMap ELSE outputs[n]]
    \* context.start_execution()
    /\ is_cancelled' = FALSE
    /\ is_paused' = FALSE
    /\ pause_event' = TRUE
    /\ waiter' = EventSetWaiter
    /\ nodes_executed' = 0
    /\ nodes_failed' = 0
    /\ deadline_passed' = FALSE
    /\ execution_history' = << >>
    /\ failed_nodes' = {}
    /\ pause_pending' = FALSE
    /\ LET sorted == topological_sort(nodes, connections)
           t == TriggerAll(callbacks, << Event("workflow_start", "") >>, TRUE)
       IN  IF sorted.raised # "none"
           THEN /\ Abort(sorted.raised, Error("", "none"), << >>, invoked)
                /\ UNCHANGED << execution_order, idx, results >>
           ELSE IF t.raised
           THEN /\ CallbackAbort(t.fired, invoked \o t.invoked)
                /\ UNCHANGED << execution_order, idx, results >>
           ELSE /\ is_running' = TRUE
                /\ execution_order' = sorted.value
                /\ events' = t.fired
                /\ invoked' = invoked \o t.invoked
                /\ results' = EmptyMap
                /\ idx' = 1
                /\ pc' = "loop"
                /\ UNCHANGED ret
    /\ UNCHANGED << engineVars, inputs, node_outputs, max_execution_time >>
    /\ UNCHANGED << regVars, threadVars, callbacks, previous >>

\* mutant: the timeout is raised as an error of another type
EnterNode_TimeoutError ==
    LET n == execution_order[idx]
        t == TriggerAll(callbacks, << Event("node_start", n) >>, is_running)
    IN  IF check_timeout
        THEN /\ Abort("TimeoutError", Error("", "none"), events, invoked)
             /\ UNCHANGED << execution_history, failed_nodes, nodes_executed,
                             nodes_failed >>
        ELSE IF t.raised
        THEN NodeAbortFrom(n, "callback", events \o t.fired, invoked \o t.invoked)
        ELSE /\ events' = events \o t.fired
             /\ invoked' = invoked \o t.invoked
             /\ pc' = "prepare"
             /\ UNCHANGED << is_running, ret, execution_history, failed_nodes,
                             nodes_executed, nodes_failed >>

\* mutant: the time limit is not tested at the node boundary
EnterNode_NoTimeoutCheck ==
    LET n == execution_order[idx]
        t == TriggerAll(callbacks, << Event("node_start", n) >>, is_running)
    IN  IF t.raised
        THEN NodeAbortFrom(n, "callback", events \o t.fired, invoked \o t.invoked)
        ELSE /\ events' = events \o t.fired
             /\ invoked' = invoked \o t.invoked
             /\ pc' = "prepare"
             /\ UNCHANGED << is_running, ret, execution_history, failed_nodes,
                             nodes_executed, nodes_failed >>

\* after wait_if_paused: check_timeout, then _execute_node up to
\* node_start; an exception leaving it is a failure of the node
EnterNode ==
    LET n == execution_order[idx]
        t == TriggerAll(callbacks, << Event("node_start", n) >>, is_running)
    IN  IF check_timeout
        THEN /\ Abort("WorkflowExecutionError", Error("", "none"), events, invoked)
             /\ UNCHANGED << execution_history, failed_nodes, nodes_executed,
                             nodes_failed >>
        ELSE IF t.raised
        THEN NodeAbortFrom(n, "callback", events \o t.fired, invoked \o t.invoked)
        ELSE /\ events' = events \o t.fired
             /\ invoked' = invoked \o t.invoked
             /\ pc' = "prepare"
             /\ UNCHANGED << is_running, ret, execution_history, failed_nodes,
                             nodes_executed, nodes_failed >>

\* top of "for node_id in execution_order": loop exit, cancel check,
\* wait_if_paused
LoopTop ==
    /\ pc = "loop"
    /\ IF idx > Len(execution_order) \/ is_cancelled
       THEN /\ LET t == TriggerAll(callbacks,
                                    << Event("workflow_complete", ""),
                                       Event("workflow_end", "") >>, is_running)
               IN  IF t.raised
                   THEN CallbackAbort(events \o t.fired, invoked \o t.invoked)
                   ELSE /\ events' = events \o t.fired
                        /\ invoked' = invoked \o t.invoked
                        /\ is_running' = FALSE
                        /\ ret' = Ret("execute_workflow", "none", results)
                        /\ pc' = "returned"
            /\ UNCHANGED << waiter, execution_history, failed_nodes,
                            nodes_executed, nodes_failed >>
       ELSE IF is_paused /\ ~pause_event
            THEN /\ waiter' = "pending"
                 /\ pc' = "waiting"
                 /\ UNCHANGED << is_running, events, invoked, ret, execution_history,
                                 failed_nodes, nodes_executed, nodes_failed >>
            ELSE /\ EnterNode
                 /\ UNCHANGED waiter
    /\ UNCHANGED << engineVars, nodeVars, is_cancelled, is_paused, pause_event,
                    node_outputs, max_execution_time, deadline_passed,
                    execution_order, idx, results, pause_pending >>
    /\ UNCHANGED << regVars, threadVars, callbacks, previous >>

\* the future inside _pause_event.wait() has been resolved
WaitRelease ==
    /\ pc = "waiting"
    /\ waiter = "done"
    /\ waiter' = "none"
    /\ EnterNode
    /\ UNCHANGED << engineVars, nodeVars, is_cancelled, is_paused, pause_event,
                    node_outputs, max_execution_time, deadline_passed,
                    execution_order, idx, results, pause_pending >>
    /\ UNCHANGED << regVars, threadVars, callbacks, previous >>

\* mutant: a value already present is not overwritten (setdefault)
set_input_KeepFirst(ins, n, name, value) ==
    LET spec == _get_input_spec_by_name(n, name)
    IN  IF spec = << >> \/ ~validate(spec[1], value)
        THEN [raised |-> TRUE, error |-> "ValueError", inputs |-> ins]
        ELSE [raised |-> FALSE, error |-> "none",
              inputs |-> IF name \in DOMAIN ins THEN ins ELSE Put(ins, name, value)]

\* BaseNode.set_input: the new inputs, or a raise (ValueError from
\* set_input itself, TypeError when validate raises)
set_input(ins, n, name, value) ==
    LET spec == _get_input_spec_by_name(n, name)
    IN  IF spec = << >>
        THEN [raised |-> TRUE, error |-> "ValueError", inputs |-> ins]
        ELSE IF validate_raises(spec[1], value)
        THEN [raised |-> TRUE, error |-> "TypeError", inputs |-> ins]
        ELSE IF ~validate(spec[1], value)
        THEN [raised |-> TRUE, error |-> "ValueError", inputs |-> ins]
        ELSE [raised |-> FALSE, error |-> "none", inputs |-> Put(ins, name, value)]

\* _prepare_node_inputs: every connection into n, in list order
RECURSIVE _prepare_node_inputs(_, _, _, _)
_prepare_node_inputs(cs, n, ins, outs) ==
    IF cs = << >> THEN [raised |-> FALSE, error |-> "none", inputs |-> ins]
    ELSE LET conn == Head(cs)
             source_output == get_node_output(outs, conn.from_node_id, conn.from_output)
         IN  IF conn.to_node_id = n /\ source_output # None
             THEN LET r == set_input(ins, n, conn.to_input, source_output)
                  IN  IF r.raised THEN r
                      ELSE _prepare_node_inputs(Tail(cs), n, r.inputs, outs)
             ELSE _prepare_node_inputs(Tail(cs), n, ins, outs)

\* BaseNode.validate_inputs: TRUE when no declared input fails
validate_inputs(n, ins) ==
    \A i \in DOMAIN get_input_spec(n) :
        validate(get_input_spec(n)[i], Get(ins, get_input_spec(n)[i].name))

\* mutant: the body is started on the worker pool but not awaited, the
\* scheduler goes on to the next node boundary
PrepareNode_NoAwait ==
    /\ pc = "prepare"
    /\ LET n == execution_order[idx]
           r == _prepare_node_inputs(connections, n, inputs[n], node_outputs)
       IN  /\ inputs' = [inputs EXCEPT ![n] = r.inputs]
           /\ IF r.raised
              THEN NodeAbort(n, "ValueError") /\ UNCHANGED << state, idx >>
              ELSE IF ~validate_inputs(n, r.inputs)
                   THEN NodeAbort(n, "WorkflowExecutionError") /\ UNCHANGED << state, idx >>
                   ELSE /\ state' = [state EXCEPT ![n] = "RUNNING"]
                        /\ idx' = idx + 1
                        /\ pc' = "loop"
                        /\ UNCHANGED << is_running, events, invoked, ret,
                                        execution_history, failed_nodes,
                                        nodes_executed, nodes_failed >>
    /\ UNCHANGED << engineVars, outputs, is_cancelled, is_paused, pause_event,
                    waiter, node_outputs, max_execution_time, deadline_passed,
                    execution_order, results, pause_pending >>
    /\ UNCHANGED << regVars, threadVars, callbacks, previous >>

\* _execute_node from input gathering to the hand-off to the worker pool
PrepareNode ==
    /\ pc = "prepare"
    /\ LET n == execution_order[idx]
           r == _prepare_node_inputs(connections, n, inputs[n], node_outputs)
       IN  /\ inputs' = [inputs EXCEPT ![n] = r.inputs]
           /\ IF r.raised
              THEN NodeAbort(n, "ValueError") /\ UNCHANGED state
              ELSE IF ~validate_inputs(n, r.inputs)
                   THEN NodeAbort(n, "WorkflowExecutionError") /\ UNCHANGED state
                   ELSE /\ state' = [state EXCEPT ![n] = "RUNNING"]
                        /\ pc' = "running"
                        /\ UNCHANGED << is_running, events, invoked, ret,
                                        execution_history, failed_nodes,
                                        nodes_executed, nodes_failed >>
    /\ UNCHANGED << engineVars, outputs, is_cancelled, is_paused, pause_event,
                    waiter, node_outputs, max_execution_time, deadline_passed,
                    execution_order, idx, results, pause_pending >>
    /\ UNCHANGED << regVars, threadVars, callbacks, previous >>

\* mutant: the node's outputs are not entered in the result map
BodyReturnsNoResult(v) ==
    /\ pc = "running"
    /\ LET n == execution_order[idx]
           outs == [k \in OutputNames(n) |-> v]
       IN  /\ state' = [state EXCEPT ![n] = "COMPLETED"]
           /\ outputs' = [outputs EXCEPT ![n] = outs]
           /\ node_outputs' = Put(node_outputs, n, outs)
           /\ events' = events \o << Event("node_complete", n), Event("node_end", n) >>
           /\ invoked' = invoked \o
                  TriggerAll(callbacks, << Event("node_complete", n), Event("node_end", n) >>,
                             is_running).invoked
           /\ execution_history' = Append(execution_history, n)
           /\ nodes_executed' = nodes_executed + 1
    /\ idx' = idx + 1
    /\ pc' = "loop"
    /\ UNCHANGED << engineVars, inputs, is_running, is_cancelled, is_paused,
                    pause_event, waiter, failed_nodes, nodes_failed,
                    max_execution_time, deadline_passed, execution_order, ret,
                    pause_pending, results >>
    /\ UNCHANGED << regVars, threadVars, callbacks, previous >>

\* node.execute returned the output map {x: v} on the worker pool; an
\* exception leaving node_complete / node_end is a failure of the node
BodyReturns(v) ==
    /\ pc = "running"
    /\ LET n == execution_order[idx]
           outs == [k \in OutputNames(n) |-> v]
           t == TriggerAll(callbacks, << Event("node_complete", n), Event("node_end", n) >>,
                           is_running)
       IN  /\ outputs' = [outputs EXCEPT ![n] =
                   [k \in (DOMAIN @) \cup (DOMAIN outs) |->
                       IF k \in DOMAIN outs THEN outs[k] ELSE @[k]]]
           /\ node_outputs' = Put(node_outputs, n, outs)
           /\ IF t.raised
              THEN /\ state' = [state EXCEPT ![n] = "FAILED"]
                   /\ NodeAbortFrom(n, "callback", events \o t.fired,
                                    invoked \o t.invoked)
                   /\ UNCHANGED << results, idx >>
              ELSE /\ state' = [state EXCEPT ![n] = "COMPLETED"]
                   /\ events' = events \o t.fired
                   /\ invoked' = invoked \o t.invoked
                   /\ results' = Put(results, n, outs)
                   /\ execution_history' = Append(execution_history, n)
                   /\ nodes_executed' = nodes_executed + 1
                   /\ idx' = idx + 1
                   /\ pc' = "loop"
                   /\ UNCHANGED << is_running, failed_nodes, nodes_failed, ret >>
    /\ UNCHANGED << engineVars, inputs, is_cancelled, is_paused,
                    pause_event, waiter, max_execution_time, deadline_passed,
                    execution_order, pause_pending >>
    /\ UNCHANGED << regVars, threadVars, callbacks, previous >>

\* mutant: continue-on-error, the failure is recorded and the loop goes on
BodyRaisesContinue ==
    /\ pc = "running"
    /\ state' = [state EXCEPT ![execution_order[idx]] = "FAILED"]
    /\ execution_history' = Append(execution_history, execution_order[idx])
    /\ nodes_executed' = nodes_executed + 1
    /\ failed_nodes' = failed_nodes \cup {execution_order[idx]}
    /\ nodes_failed' = nodes_failed + 1
    /\ events' = events \o << Event("node_error", execution_order[idx]),
                               Event("node_end", execution_order[idx]) >>
    /\ invoked' = invoked \o
           TriggerAll(callbacks, << Event("node_error", execution_order[idx]),
                                    Event("node_end", execution_order[idx]) >>,
                      is_running).invoked
    /\ idx' = idx + 1
    /\ pc' = "loop"
    /\ UNCHANGED << engineVars, inputs, outputs, is_running, is_cancelled, is_paused,
                    pause_event, waiter, node_outputs, max_execution_time,
                    deadline_passed, execution_order, results, ret, pause_pending >>
    /\ UNCHANGED << regVars, threadVars, callbacks, previous >>

\* node.execute raised on the worker pool
BodyRaises ==
    /\ pc = "running"
    /\ state' = [state EXCEPT ![execution_order[idx]] = "FAILED"]
    /\ NodeAbort(execution_order[idx], "Exception")
    /\ UNCHANGED << engineVars, inputs, outputs, is_cancelled, is_paused,
                    pause_event, waiter, node_outputs, max_execution_time,
                    deadline_passed, execution_order, idx, results, pause_pending >>
    /\ UNCHANGED << regVars, threadVars, callbacks, previous >>

(* ------------------------------------------------------------------ *)
(* Specification of a run                                              *)
(* ------------------------------------------------------------------ *)
ValidConnections ==
    {NodeConnection(f, fo, t, ti) :
        f \in NodeIds, fo \in {"x"}, t \in NodeIds, ti \in {"y", "z"}}
        \ {NodeConnection(f, "x", t, "z") : f \in NodeIds, t \in {"A", "B"}}

\* the connection lists connect_nodes can build: no duplicates
ConnectionLists(k) ==
    {cs \in UNION {[1..m -> ValidConnections] : m \in 0..k} :
        \A i, j \in DOMAIN cs : i # j => cs[i] # cs[j]}

InitRun ==
    /\ nodes = << "A", "B", "C" >>
    /\ connections \in ConnectionLists(MaxRunConns)
    /\ max_execution_time \in {None, 1}
    /\ FreshRest

Scheduler == ExecuteWorkflow \/ LoopTop \/ WaitRelease \/ PrepareNode
                \/ BodyRaises \/ \E v \in Values : BodyReturns(v)

NextRun ==
    \/ ExecuteWorkflow
    \/ LoopTop
    \/ WaitRelease
    \/ PrepareNode
    \/ \E v \in Values : BodyReturns(v)
    \/ BodyRaises
    \/ pause_execution
    \/ resume_execution
    \/ cancel_execution
    \/ DeadlinePasses

Spec == InitRun /\ [][NextRun]_vars

(* ------------------------------------------------------------------ *)
(* Specification of the graph operations                               *)
(* ------------------------------------------------------------------ *)
InitEngine ==
    /\ nodes = << >>
    /\ connections = << >>
    /\ max_execution_time = None
    /\ FreshRest

NextEngine ==
    \/ \E n \in NodeIds : add_node(n)
    \/ \E n \in NodeIds : remove_node(n)
    \/ \E f \in NodeIds, t \in NodeIds, fo \in OutputArgs, ti \in InputArgs :
           connect_nodes(f, fo, t, ti)
    \/ \E f \in NodeIds, t \in NodeIds, fo \in OutputArgs, ti \in InputArgs :
           disconnect_nodes(f, fo, t, ti)
    \/ clear
    \/ TopologicalSort

SpecEngine == InitEngine /\ [][NextEngine]_vars

(* ------------------------------------------------------------------ *)
(* Graph facts used by the ordering claims                             *)
(* ------------------------------------------------------------------ *)
Edges(cs) == {<< cs[i].from_node_id, cs[i].to_node_id >> : i \in DOMAIN cs}

\* nodes reachable from u by k or fewer connections (k >= 1)
RECURSIVE ReachWithin(_, _, _)
ReachWithin(cs, frontier, k) ==
    LET next == frontier \cup {e[2] : e \in {d \in Edges(cs) : d[1] \in frontier}}
    IN  IF k = 0 \/ next = frontier THEN frontier ELSE ReachWithin(cs, next, k - 1)

Successors(cs, u) == {e[2] : e \in {d \in Edges(cs) : d[1] = u}}

\* u lies on a cycle: u is reachable from one of its own successors
OnCycle(cs, u) == u \in ReachWithin(cs, Successors(cs, u), Cardinality(NodeIds))

HasCycle(ns, cs) == \E u \in Range(ns) : OnCycle(cs, u)

IndexOf(seq, x) == CHOOSE i \in DOMAIN seq : seq[i] = x

SortReturned == ret.op = "topological_sort" /\ ret.raised = "none"

SortRaised == ret.op = "topological_sort" /\ ret.raised = "CircularDependencyError"

\* C1: on an acyclic connection graph topological_sort returns a list that
\* holds every node id of the engine exactly once and puts the source of
\* every connection before its target.
C1_TopologicalValidity ==
    (ret.op = "topological_sort" /\ ~HasCycle(nodes, connections)) =>
        /\ ret.raised = "none"
        /\ Len(ret.value) = Len(nodes)
        /\ Range(ret.value) = Range(nodes)
        /\ \A i \in DOMAIN connections :
              IndexOf(ret.value, connections[i].from_node_id)
                  < IndexOf(ret.value, connections[i].to_node_id)

\* a diamond-free witness is not enough: two connections into one node
C1_Witness ==
    /\ SortReturned
    /\ Len(nodes) = 3
    /\ Len(connections) >= 2
    /\ \E i, j \in DOMAIN connections :
          /\ i # j
          /\ connections[i].to_node_id = connections[j].to_node_id
          /\ connections[i].from_node_id # connections[j].from_node_id
    /\ ret.value # nodes

\* C2: a connection graph with a cycle (a self-connection included) makes
\* topological_sort raise CircularDependencyError and return no order; an
\* acyclic graph never raises.
C2_CycleDetection ==
    ret.op = "topological_sort" =>
        /\ HasCycle(nodes, connections) =>
              (ret.raised = "CircularDependencyError" /\ ret.value = << >>)
        /\ ~HasCycle(nodes, connections) => ret.raised = "none"

\* a cycle next to a node that Kahn's loop does place in its partial result
C2_Witness ==
    /\ SortRaised
    /\ HasCycle(nodes, connections)
    /\ \E u \in Range(nodes) : ~OnCycle(connections, u)
    /\ KahnResult(nodes, connections) # << >>

(* ------------------------------------------------------------------ *)
(* Facts about a run                                                   *)
(* ------------------------------------------------------------------ *)
Active == pc \in {"loop", "waiting", "prepare", "running"}

Terminated == pc \in {"returned", "raised"}

Started(n) == \E i \in DOMAIN events : events[i] = Event("node_start", n)

NodeStarts == Len(SelectSeq(events, LAMBDA e : e.event_type = "node_start"))

Chain(a, b, c) ==
    connections = << NodeConnection(a, "x", b, "y"), NodeConnection(b, "x", c, "y") >>

\* C3: fail-fast. When a node's body raises, execute_workflow raises, the
\* failing node is FAILED, every node after it in the execution order is
\* still READY and has fired no node_start, the execution history is the
\* prefix of the order up to and including the failing node, and
\* failed_nodes holds the failing node only.
C3_FailFast ==
    \A n \in Range(nodes) :
        state[n] = "FAILED" =>
            /\ pc = "raised"
            /\ ret.op = "execute_workflow"
            /\ ret.raised = "WorkflowExecutionError"
            /\ idx \in DOMAIN execution_order
            /\ execution_order[idx] = n
            /\ \A j \in DOMAIN execution_order :
                  j > idx => /\ state[execution_order[j]] = "READY"
                             /\ ~Started(execution_order[j])
            /\ execution_history = SubSeq(execution_order, 1, idx)
            /\ failed_nodes = {n}

\* chain A -> B -> C whose middle node failed
C3_Witness ==
    /\ Chain("A", "B", "C")
    /\ state = [n \in NodeIds |->
                  IF n = "A" THEN "COMPLETED" ELSE IF n = "B" THEN "FAILED" ELSE "READY"]
    /\ pc = "raised"
    /\ failed_nodes = {"B"}

\* C4 (as claimed): once cancel_execution() has been called during a run,
\* no node that had not yet started is started afterwards, wherever the
\* scheduler was when the cancel arrived.
C4_NoStartAfterCancel ==
    [][(Active /\ is_cancelled) => NodeStarts' = NodeStarts]_vars

\* C5: when execute_workflow returns normally the returned map has exactly
\* one entry per node completed in this run, equal to that node's outputs;
\* it covers every node of the engine unless the run was cancelled, and a
\* cancellation observed at a node boundary makes the call return, never
\* raise.
C5_ResultMap ==
    (pc = "returned") =>
        /\ ret.op = "execute_workflow"
        /\ ret.raised = "none"
        /\ DOMAIN ret.value = Range(execution_history)
        /\ DOMAIN ret.value = {n \in Range(nodes) : state[n] = "COMPLETED"}
        /\ DOMAIN ret.value = Range(SubSeq(execution_order, 1, idx - 1))
        /\ Len(execution_history) = Cardinality(DOMAIN ret.value)
        /\ \A n \in DOMAIN ret.value :
              /\ ret.value[n] = outputs[n]
              /\ ret.value[n] = node_outputs[n]
        /\ ~is_cancelled => DOMAIN ret.value = Range(nodes)

C5_CancelReturns ==
    [][(pc = "loop" /\ is_cancelled) => pc' \in {"loop", "returned"}]_vars

C5_CancellationSafety == []C5_ResultMap /\ C5_CancelReturns

\* cancel before node 2 of the chain A -> B -> C: the map holds A only
C5_Witness ==
    /\ Chain("A", "B", "C")
    /\ pc = "returned"
    /\ is_cancelled
    /\ DOMAIN ret.value = {"A"}
    /\ state["B"] = "READY"

\* C6 (as claimed): while the context is paused during a run
\* (pause_execution called while running, neither resume_execution nor
\* cancel_execution called since) the scheduler starts no new node.
ContextPaused == pause_pending /\ is_running /\ is_paused /\ ~is_cancelled

C6_PausedStartsNothing ==
    [][(Active /\ ContextPaused) => NodeStarts' = NodeStarts]_vars

\* graphs of the liveness runs: no connection, a chain, two producers of
\* one input
LiveGraphs ==
    { << >>,
      << NodeConnection("A", "x", "B", "y"), NodeConnection("B", "x", "C", "y") >>,
      << NodeConnection("A", "x", "C", "y"), NodeConnection("B", "x", "C", "y") >> }

InitLive ==
    /\ nodes = << "A", "B", "C" >>
    /\ connections \in LiveGraphs
    /\ max_execution_time \in {None, 1}
    /\ FreshRest

\* The event loop runs every ready step of the coroutine and node bodies
\* terminate; control calls may or may not ever come.
SpecLive == InitLive /\ [][NextRun]_vars /\ WF_vars(Scheduler)

\* C7: a scheduler blocked in wait_if_paused is released once
\* resume_execution or cancel_execution is called; a cancelled run
\* terminates, and so does a run that is eventually left unpaused.
C7_GateLiveness ==
    /\ (pc = "waiting" /\ ~pause_pending) ~> (pc # "waiting")
    /\ (Active /\ is_cancelled) ~> Terminated
    /\ (<>[](~is_paused)) => <>Terminated

\* the scheduler was blocked at the gate when cancel_execution opened it
C7_Witness ==
    /\ pc = "waiting"
    /\ waiter = "done"
    /\ is_cancelled
    /\ is_paused

Incoming(n) == {i \in DOMAIN connections : connections[i].to_node_id = n}

\* C8: when input gathering for a node begins, the source node of every
\* connection into it is COMPLETED and its outputs are in the context.
C8_ProducersComplete ==
    (pc = "prepare") =>
        \A i \in Incoming(execution_order[idx]) :
            LET u == connections[i].from_node_id
            IN  /\ state[u] = "COMPLETED"
                /\ u \in DOMAIN node_outputs
                /\ node_outputs[u] = outputs[u]
                /\ u \in Range(execution_history)

\* input gathering of a node fed by two different producers
C8_Witness ==
    /\ pc = "prepare"
    /\ execution_order[idx] = "C"
    /\ {connections[i].from_node_id : i \in Incoming("C")} = {"A", "B"}

SourceValue(i) ==
    get_node_output(node_outputs, connections[i].from_node_id, connections[i].from_output)

\* C9 (as claimed): when a node's body starts, for every connection into it
\* the connected input holds the value the source produced on the
\* connected output.
C9_EveryConnectionDelivered ==
    (pc = "running") =>
        \A i \in Incoming(execution_order[idx]) :
            Get(inputs[execution_order[idx]], connections[i].to_input) = SourceValue(i)

\* a connection decides its input port: its source value is not None and no
\* later connection of the list brings a value to the same port
Decides(i) ==
    /\ SourceValue(i) # None
    /\ \A j \in Incoming(connections[i].to_node_id) :
          (j > i /\ connections[j].to_input = connections[i].to_input)
              => SourceValue(j) = None

\* C9 (amended): when a node's body starts, the connected input holds the
\* source's value for every connection into the node whose source value is
\* not None and that is the last such connection into that input.
C9_DecidingConnectionDelivered ==
    (pc = "running") =>
        \A i \in Incoming(execution_order[idx]) :
            Decides(i) =>
                Get(inputs[execution_order[idx]], connections[i].to_input) = SourceValue(i)

\* two producers with different values wired to the same input of C
C9_Witness ==
    /\ pc = "running"
    /\ execution_order[idx] = "C"
    /\ \E i, j \in Incoming("C") :
          /\ i < j
          /\ connections[i].to_input = connections[j].to_input
          /\ SourceValue(i) # None
          /\ SourceValue(j) # None
          /\ SourceValue(i) # SourceValue(j)
          /\ inputs["C"][connections[j].to_input] = SourceValue(j)

RunTimeAbort ==
    /\ pc = "raised"
    /\ events # << >>
    /\ events[1] = Event("workflow_start", "")

\* C10: a run-time abort (input failure, body failure, timeout at a node
\* boundary) reaches the caller as WorkflowExecutionError, naming the
\* failing node for input and body failures; the context keeps the
\* execution history, the failed-node set and the outputs of the nodes
\* completed before the abort.
C10_RunTimeAbort ==
    RunTimeAbort =>
        /\ ret.op = "execute_workflow"
        /\ ret.raised = "WorkflowExecutionError"
        /\ idx \in DOMAIN execution_order
        /\ IF Started(execution_order[idx])
           THEN /\ ret.value.node_id = execution_order[idx]
                /\ failed_nodes = {execution_order[idx]}
                /\ execution_history = SubSeq(execution_order, 1, idx)
           ELSE /\ failed_nodes = {}
                /\ execution_history = SubSeq(execution_order, 1, idx - 1)
                /\ check_timeout
        /\ \A j \in 1..(idx - 1) :
              /\ execution_order[j] \in DOMAIN node_outputs
              /\ node_outputs[execution_order[j]] = outputs[execution_order[j]]
              /\ state[execution_order[j]] = "COMPLETED"

\* the third node of a chain fails input validation after two completions
C10_Witness ==
    /\ RunTimeAbort
    /\ ret.value.cause = "WorkflowExecutionError"
    /\ Len(execution_history) = 3
    /\ state[execution_order[3]] = "READY"
    /\ DOMAIN node_outputs = {execution_order[1], execution_order[2]}

\* C11: on a graph with a cycle execute_workflow raises
\* CircularDependencyError and runs nothing: every node is still READY, no
\* node_start has fired, the execution history and failed_nodes are empty.
C11_CycleRunsNothing ==
    (pc # "idle" /\ HasCycle(nodes, connections)) =>
        /\ pc = "raised"
        /\ ret.op = "execute_workflow"
        /\ ret.raised = "CircularDependencyError"
        /\ \A n \in Range(nodes) : state[n] = "READY" /\ ~Started(n)
        /\ NodeStarts = 0
        /\ execution_history = << >>
        /\ failed_nodes = {}
        /\ nodes_executed = 0
        /\ node_outputs = EmptyMap
        /\ ~is_running

\* a cycle beside a node that could have run
C11_Witness ==
    /\ pc = "raised"
    /\ HasCycle(nodes, connections)
    /\ \E u \in Range(nodes) :
          /\ ~OnCycle(connections, u)
          /\ Incoming(u) = {}
    /\ ret.raised = "CircularDependencyError"

\* the run was aborted at the boundary of execution_order[idx]
TimeoutAbort ==
    /\ RunTimeAbort
    /\ idx \in DOMAIN execution_order
    /\ ~Started(execution_order[idx])

C12_AbortBeforeInputs ==
    TimeoutAbort =>
        /\ check_timeout
        /\ ret.raised = "WorkflowExecutionError"
        /\ inputs[execution_order[idx]] = DefaultInputs(execution_order[idx])
        /\ \A j \in DOMAIN execution_order :
              j >= idx => /\ state[execution_order[j]] = "READY"
                          /\ execution_order[j] \notin Range(execution_history)
                          /\ execution_order[j] \notin failed_nodes
                          /\ ~Started(execution_order[j])
        /\ \A j \in 1..(idx - 1) :
              /\ state[execution_order[j]] = "COMPLETED"
              /\ execution_order[j] \in DOMAIN node_outputs

\* no node is entered while check_timeout() is true
C12_NoStartAfterDeadline ==
    [][(pc # "prepare" /\ pc' = "prepare") => ~check_timeout]_vars

\* a body in flight is left alone by the time limit: the step that ends it
\* is the body's own return (outputs stored, next boundary) or raise
C12_InFlightNotInterrupted ==
    [][(pc = "running" /\ pc' # "running") =>
          LET n == execution_order[idx]
          IN  \/ /\ pc' = "loop"
                 /\ state'[n] = "COMPLETED"
                 /\ n \in DOMAIN node_outputs'
                 /\ node_outputs'[n] = outputs'[n]
              \/ /\ pc' = "raised"
                 /\ state'[n] = "FAILED"
                 /\ ret'.value.node_id = n]_vars

\* C12: a time limit found passed at a node boundary aborts the run with an
\* error before that node's inputs are gathered, that node and the later
\* ones stay READY and out of the history and failed_nodes; a body in
\* flight when the limit passes completes or fails on its own and the
\* limit is seen only at the next boundary.
C12_TimeoutAtBoundary ==
    []C12_AbortBeforeInputs /\ C12_NoStartAfterDeadline /\ C12_InFlightNotInterrupted

\* the limit was found passed at the second boundary, after the first node
\* completed and stored its outputs
C12_Witness ==
    /\ TimeoutAbort
    /\ idx = 2
    /\ state[execution_order[1]] = "COMPLETED"
    /\ execution_order[1] \in DOMAIN node_outputs
    /\ Incoming(execution_order[2]) # {}

(* ------------------------------------------------------------------ *)
(* Node operations called from outside the engine, and repeated runs   *)
(* ------------------------------------------------------------------ *)
\* BaseNode.cancel(): only a RUNNING node becomes CANCELLED
cancel(n) ==
    /\ state' = [state EXCEPT ![n] = IF @ = "RUNNING" THEN "CANCELLED" ELSE @]
    /\ UNCHANGED << engineVars, inputs, outputs, ctxVars, runVars, ret >>
    /\ UNCHANGED << regVars, threadVars, callbacks, previous >>

\* BaseNode.reset(): state READY, outputs cleared, inputs kept
reset(n) ==
    /\ state' = [state EXCEPT ![n] = "READY"]
    /\ outputs' = [outputs EXCEPT ![n] = EmptyMap]
    /\ UNCHANGED << engineVars, inputs, ctxVars, runVars, ret >>
    /\ UNCHANGED << regVars, threadVars, callbacks, previous >>

\* the caller's await of execute_workflow is over (value or exception
\* delivered); the engine can be run again on the same context
AwaitDone ==
    /\ pc \in {"returned", "raised"}
    /\ pc' = "idle"
    /\ UNCHANGED << engineVars, nodeVars, ctxVars, execution_order, idx,
                    results, pause_pending, ret >>
    /\ UNCHANGED << regVars, threadVars, callbacks, previous >>

\* one producer feeding one consumer
InitNode ==
    /\ nodes = << "A", "C" >>
    /\ connections = << NodeConnection("A", "x", "C", "y") >>
    /\ max_execution_time \in {None, 1}
    /\ FreshRest

NextNode ==
    \/ NextRun
    \/ AwaitDone
    \/ \E n \in Range(nodes) : cancel(n)
    \/ \E n \in Range(nodes) : reset(n)

SpecNode == InitNode /\ [][NextNode]_vars

Allowed(from, to) ==
    \/ to = "READY"
    \/ from = "READY" /\ to = "RUNNING"
    \/ from = "RUNNING" /\ to \in {"COMPLETED", "FAILED", "CANCELLED"}

\* C13: a node's state changes only along READY->RUNNING,
\* RUNNING->COMPLETED, RUNNING->FAILED, RUNNING->CANCELLED and any->READY,
\* over engine runs, node cancel() and reset() calls; COMPLETED, FAILED and
\* CANCELLED are kept until a reset, and cancel_execution never makes a
\* node CANCELLED.
C13_NodeStateMachine ==
    [][/\ \A n \in NodeIds : state'[n] # state[n] => Allowed(state[n], state'[n])
       /\ cancel_execution => state' = state]_vars

(* ------------------------------------------------------------------ *)
(* Graph-operation contracts                                           *)
(* ------------------------------------------------------------------ *)
Stored(f, fo, t, ti) == NodeConnection(f, fo, t, ti) \in Range(connections)

ConnectArgs == NodeIds \X OutputArgs \X NodeIds \X InputArgs

C14_DuplicateResult ==
    \A a \in ConnectArgs :
        Stored(a[1], a[2], a[3], a[4]) =>
            LET r == connect_result(nodes, connections, a[1], a[2], a[3], a[4])
            IN  /\ r.raised = "none"
                /\ r.connections = connections
                /\ r.logged = "exists"

C14_DuplicateStep ==
    [][(ret'.op = "connect_nodes" /\ ret'.value = "exists") =>
          /\ ret'.raised = "none"
          /\ connections' = connections
          /\ nodes' = nodes]_vars

\* C14: connect_nodes called with the arguments of a connection already
\* stored does not raise and leaves the connection list as it was: same
\* count, same elements, same order.
C14_DuplicateConnectIsNoOp == []C14_DuplicateResult /\ C14_DuplicateStep

\* a duplicate connect_nodes call returned on an engine holding two
\* connections
C14_Witness ==
    /\ ret.op = "connect_nodes"
    /\ ret.raised = "none"
    /\ ret.value = "exists"
    /\ Len(connections) = 2

\* the arguments name a missing node or an undeclared port
Structural(f, fo, t, ti) ==
    \/ f \notin Range(nodes)
    \/ t \notin Range(nodes)
    \/ f \in Range(nodes) /\ fo \notin Range(get_output_spec(f))
    \/ t \in Range(nodes) /\ \A i \in DOMAIN get_input_spec(t) : get_input_spec(t)[i].name # ti

C15_ConnectRejected ==
    \A a \in ConnectArgs :
        Structural(a[1], a[2], a[3], a[4]) =>
            LET r == connect_result(nodes, connections, a[1], a[2], a[3], a[4])
            IN  /\ r.raised = "ValueError"
                /\ r.connections = connections

C15_RejectedStep ==
    [][/\ ret'.op = "add_node" =>
            \A n \in NodeIds :
                (n \in Range(nodes) /\ add_node(n)) =>
                    /\ ret'.raised = "ValueError"
                    /\ UNCHANGED << nodes, connections, state, inputs, outputs >>
       /\ (ret'.op \in {"add_node", "connect_nodes"} /\ ret'.raised = "ValueError") =>
            UNCHANGED << nodes, connections, state, inputs, outputs >>]_vars

\* C15: add_node with an id already in the engine, and connect_nodes with
\* a missing source or target node or a port name outside the node's spec,
\* raise ValueError and leave the node map, the node instances and the
\* connection list unchanged.
C15_StructuralErrorsChangeNothing == []C15_ConnectRejected /\ C15_RejectedStep

\* a rejected connect_nodes call on an engine that holds nodes and
\* connections
C15_Witness ==
    /\ ret.op = "connect_nodes"
    /\ ret.raised = "ValueError"
    /\ Len(nodes) >= 2
    /\ connections # << >>

\* C16: after any sequence of add_node, remove_node, connect_nodes,
\* disconnect_nodes and clear, every stored connection joins two nodes of
\* the engine on ports their specs declare, node ids are unique and no two
\* stored connections are identical.
C16_GraphWellFormed ==
    /\ \A i \in DOMAIN connections :
          LET c == connections[i]
          IN  /\ c.from_node_id \in Range(nodes)
              /\ c.to_node_id \in Range(nodes)
              /\ c.from_output \in Range(get_output_spec(c.from_node_id))
              /\ \E k \in DOMAIN get_input_spec(c.to_node_id) :
                    get_input_spec(c.to_node_id)[k].name = c.to_input
    /\ \A i, j \in DOMAIN nodes : i # j => nodes[i] # nodes[j]
    /\ \A i, j \in DOMAIN connections : i # j => connections[i] # connections[j]

\* a node was removed from an engine that still holds a connection between
\* the two nodes left
C16_Witness ==
    /\ ret.op = "remove_node"
    /\ ret.value = TRUE
    /\ Len(nodes) = 2
    /\ Len(connections) >= 1

Touches(c, n) == c.from_node_id = n \/ c.to_node_id = n

\* s is t with some elements left out, order kept
RECURSIVE IsSubSeq(_, _)
IsSubSeq(s, t) ==
    IF s = << >> THEN TRUE
    ELSE IF t = << >> THEN FALSE
    ELSE IF Head(s) = Head(t) THEN IsSubSeq(Tail(s), Tail(t))
    ELSE IsSubSeq(s, Tail(t))

\* C17: remove_node(id) returns true iff id was in the engine; afterwards
\* id is absent and no connection touches it, every other node and every
\* connection not touching id is kept in its relative order; for an absent
\* id the call returns false and changes nothing.
C17_RemoveNode ==
    [][\A n \in NodeIds :
          (ret'.op = "remove_node" /\ remove_node(n)) =>
              /\ ret'.value = (n \in Range(nodes))
              /\ ret'.raised = "none"
              /\ n \notin Range(nodes')
              /\ \A i \in DOMAIN connections' : ~Touches(connections'[i], n)
              /\ Range(nodes') = Range(nodes) \ {n}
              /\ IsSubSeq(nodes', nodes)
              /\ Range(connections') = {c \in Range(connections) : ~Touches(c, n)}
              /\ IsSubSeq(connections', connections)
              /\ Len(connections') = Cardinality(Range(connections'))
              /\ UNCHANGED << state, inputs, outputs >>
              /\ n \notin Range(nodes) => UNCHANGED << nodes, connections >>]_vars

\* remove_node returned true and took the node's connection with it
C17_Witness ==
    /\ ret.op = "remove_node"
    /\ ret.value = TRUE
    /\ Len(nodes) = 2
    /\ connections = << >>

\* disconnect_nodes returns true iff the connection was stored, removes it
\* and nothing else; a second identical call returns false
C18_DisconnectResult ==
    \A a \in ConnectArgs :
        LET r == disconnect_result(connections, a[1], a[2], a[3], a[4])
            c == NodeConnection(a[1], a[2], a[3], a[4])
        IN  /\ r.removed = (c \in Range(connections))
            /\ Range(r.connections) = Range(connections) \ {c}
            /\ IsSubSeq(r.connections, connections)
            /\ Len(r.connections) =
                   Len(connections) - (IF c \in Range(connections) THEN 1 ELSE 0)
            /\ ~disconnect_result(r.connections, a[1], a[2], a[3], a[4]).removed

C18_DisconnectStep ==
    [][ret'.op = "disconnect_nodes" =>
          /\ nodes' = nodes
          /\ IsSubSeq(connections', connections)
          /\ Len(connections') = Len(connections) - (IF ret'.value THEN 1 ELSE 0)
          /\ ret'.raised = "none"]_vars

C18_DisconnectExact == []C18_DisconnectResult /\ C18_DisconnectStep

\* connect_nodes then the identical disconnect_nodes, from the current
\* engine
RoundTrip(f, fo, t, ti) ==
    disconnect_result(connect_result(nodes, connections, f, fo, t, ti).connections,
                      f, fo, t, ti).connections

C18_RoundTripAlways ==
    \A f \in NodeIds, fo \in OutputArgs, t \in NodeIds, ti \in InputArgs :
        RoundTrip(f, fo, t, ti) = connections

C18_RoundTripOfNew ==
    \A f \in NodeIds, fo \in OutputArgs, t \in NodeIds, ti \in InputArgs :
        ~Stored(f, fo, t, ti) => RoundTrip(f, fo, t, ti) = connections

\* C18 as stated: disconnect_nodes returns true iff an identical connection
\* was stored and removes exactly it, a second identical call returns
\* false, and connect_nodes followed by the identical disconnect_nodes
\* always restores the previous connection list.
C18_DisconnectRestoresAlways == C18_DisconnectExact /\ []C18_RoundTripAlways

\* C18 amended: as above, with the round trip restoring the previous list
\* when the connection was not stored before the connect_nodes call.
C18_DisconnectRestoresNew == C18_DisconnectExact /\ []C18_RoundTripOfNew

\* disconnect_nodes returned true and left the other connection in place
C18_Witness ==
    /\ ret.op = "disconnect_nodes"
    /\ ret.value = TRUE
    /\ Len(connections) = 1

(* ------------------------------------------------------------------ *)
(* NodeRegistry                                                        *)
(* ------------------------------------------------------------------ *)
\* del d[k]
Del(d, k) == [j \in (DOMAIN d) \ {k} |-> d[j]]

\* node_type arguments: the strings "", "t1", "t2" and the int 7
TypeArg(is_str, v) == [is_str |-> is_str, v |-> v]

TypeArgs == {TypeArg(TRUE, ""), TypeArg(TRUE, "t1"), TypeArg(TRUE, "t2"),
             TypeArg(FALSE, "7")}

\* node_class arguments: two node classes, a node class whose
\* get_metadata() raises, a node class that cannot be instantiated (it
\* leaves execute abstract), and a class outside the BaseNode hierarchy
ClassArgs == {"DummyNode", "OtherNode", "BrokenMetaNode", "AbstractNode", "object"}

Categories == {"custom", "test"}

\* not node_type or not isinstance(node_type, str)
InvalidType(t) == t.v = "" \/ ~t.is_str

issubclass_BaseNode(c) == c # "object"

\* node_class.get_metadata(): the metadata object, or an exception
get_metadata(c) ==
    IF c = "BrokenMetaNode"
    THEN [raised |-> TRUE, metadata |-> ""]
    ELSE [raised |-> FALSE, metadata |-> c]

\* defaultdict(set)[k]: the stored set, a new empty set for an absent key
defaultdict_get(d, k) == IF k \in DOMAIN d THEN d[k] ELSE {}

\* mutant: a type registered with another class is registered anew
register_node_Overwrite(t, c, category) ==
    /\ pc = "idle"
    /\ IF InvalidType(t)
       THEN /\ ret' = Ret("register_node", "ValueError", FALSE)
            /\ UNCHANGED regVars
       ELSE IF ~issubclass_BaseNode(c)
       THEN /\ ret' = Ret("register_node", "TypeError", FALSE)
            /\ UNCHANGED regVars
       ELSE IF t.v \in DOMAIN _node_classes /\ _node_classes[t.v] = c
       THEN /\ ret' = Ret("register_node", "none", FALSE)
            /\ UNCHANGED regVars
       ELSE /\ _node_classes' = Put(_node_classes, t.v, c)
            /\ _categories' = Put(_categories, category,
                                   defaultdict_get(_categories, category) \cup {t.v})
            /\ _metadata_cache' =
                   IF get_metadata(c).raised THEN _metadata_cache
                   ELSE Put(_metadata_cache, t.v, get_metadata(c).metadata)
            /\ ret' = Ret("register_node", "none", TRUE)
    /\ UNCHANGED << engineVars, nodeVars, ctxVars, runVars, threadVars, callbacks, previous >>

\* mutant: a get_metadata() failure is raised to the caller
register_node_MetadataFatal(t, c, category) ==
    /\ pc = "idle"
    /\ IF InvalidType(t)
       THEN /\ ret' = Ret("register_node", "ValueError", FALSE)
            /\ UNCHANGED regVars
       ELSE IF ~issubclass_BaseNode(c)
       THEN /\ ret' = Ret("register_node", "TypeError", FALSE)
            /\ UNCHANGED regVars
       ELSE IF t.v \in DOMAIN _node_classes
       THEN /\ ret' = Ret("register_node",
                          IF _node_classes[t.v] # c THEN "ValueError" ELSE "none",
                          FALSE)
            /\ UNCHANGED regVars
       ELSE /\ _node_classes' = Put(_node_classes, t.v, c)
            /\ _categories' = Put(_categories, category,
                                   defaultdict_get(_categories, category) \cup {t.v})
            /\ IF get_metadata(c).raised
               THEN /\ ret' = Ret("register_node", "Exception", FALSE)
                    /\ UNCHANGED _metadata_cache
               ELSE /\ _metadata_cache' =
                           Put(_metadata_cache, t.v, get_metadata(c).metadata)
                    /\ ret' = Ret("register_node", "none", TRUE)
    /\ UNCHANGED << engineVars, nodeVars, ctxVars, runVars, threadVars, callbacks, previous >>

\* NodeRegistry.register_node; ret.value is the value returned (it stands
\* for nothing when the call raised); an absent category reads as the
\* empty set of the defaultdict
register_node(t, c, category) ==
    /\ pc = "idle"
    /\ IF InvalidType(t)
       THEN /\ ret' = Ret("register_node", "ValueError", FALSE)
            /\ UNCHANGED regVars
       ELSE IF ~issubclass_BaseNode(c)
       THEN /\ ret' = Ret("register_node", "TypeError", FALSE)
            /\ UNCHANGED regVars
       ELSE IF t.v \in DOMAIN _node_classes
       THEN /\ ret' = Ret("register_node",
                          IF _node_classes[t.v] # c THEN "ValueError" ELSE "none",
                          FALSE)
            /\ UNCHANGED regVars
       ELSE /\ _node_classes' = Put(_node_classes, t.v, c)
            /\ _categories' = Put(_categories, category,
                                   defaultdict_get(_categories, category) \cup {t.v})
            /\ _metadata_cache' =
                   IF get_metadata(c).raised THEN _metadata_cache
                   ELSE Put(_metadata_cache, t.v, get_metadata(c).metadata)
            /\ ret' = Ret("register_node", "none", TRUE)
    /\ UNCHANGED << engineVars, nodeVars, ctxVars, runVars, threadVars, callbacks, previous >>

\* the loop of unregister_node over the category sets: the type is removed
\* from the first set that holds it, then the loop breaks
RemoveFromFirstCategory(cats, node_type) ==
    LET holders == {g \in DOMAIN cats : node_type \in cats[g]}
    IN  IF holders = {}
        THEN cats
        ELSE [cats EXCEPT ![CHOOSE g \in holders : TRUE] = @ \ {node_type}]

\* mutant: the type stays in its category set
unregister_node_KeepCategory(t) ==
    /\ pc = "idle"
    /\ IF t.v \notin DOMAIN _node_classes
       THEN /\ ret' = Ret("unregister_node", "none", FALSE)
            /\ UNCHANGED regVars
       ELSE /\ _categories' = _categories
            /\ _node_classes' = Del(_node_classes, t.v)
            /\ _metadata_cache' = Del(_metadata_cache, t.v)
            /\ ret' = Ret("unregister_node", "none", TRUE)
    /\ UNCHANGED << engineVars, nodeVars, ctxVars, runVars, threadVars, callbacks, previous >>

\* NodeRegistry.unregister_node: the type leaves its category's set (the
\* set stays, possibly empty), the catalog and the metadata cache
unregister_node(t) ==
    /\ pc = "idle"
    /\ IF t.v \notin DOMAIN _node_classes
       THEN /\ ret' = Ret("unregister_node", "none", FALSE)
            /\ UNCHANGED regVars
       ELSE /\ _categories' = RemoveFromFirstCategory(_categories, t.v)
            /\ _node_classes' = Del(_node_classes, t.v)
            /\ _metadata_cache' = Del(_metadata_cache, t.v)
            /\ ret' = Ret("unregister_node", "none", TRUE)
    /\ UNCHANGED << engineVars, nodeVars, ctxVars, runVars, threadVars, callbacks, previous >>

\* NodeRegistry.clear
NodeRegistry_clear ==
    /\ pc = "idle"
    /\ _node_classes' = EmptyMap
    /\ _categories' = EmptyMap
    /\ _metadata_cache' = EmptyMap
    /\ ret' = Ret("clear", "none", FALSE)
    /\ UNCHANGED << engineVars, nodeVars, ctxVars, runVars, threadVars, callbacks, previous >>

\* node_id arguments of create_node: None, the strings "" and "n1", the int 7
NodeIdArg(kind, v) == [kind |-> kind, v |-> v]

NodeIdArgs == {NodeIdArg("None", ""), NodeIdArg("str", ""), NodeIdArg("str", "n1"),
               NodeIdArg("int", "7")}

\* str(uuid.uuid4())
uuid4 == NodeIdArg("str", "uuid4")

\* node_class(node_id=node_id, label=label): BaseNode.__init__ takes the id
\* unless it is falsy, and slices it for the logger name; a class with an
\* abstract method left raises TypeError
Construct(c, node_id) ==
    LET id == IF node_id.kind = "None" \/ node_id.v = "" THEN uuid4 ELSE node_id
    IN  IF c = "AbstractNode" \/ id.kind # "str"
        THEN [raised |-> TRUE, class |-> "", node_id |-> NodeIdArg("None", "")]
        ELSE [raised |-> FALSE, class |-> c, node_id |-> id]

ReturnsNone == [returned |-> "None", class |-> "", node_id |-> NodeIdArg("None", "")]

\* mutant: the constructor's exception reaches the caller
create_node_result_Propagate(classes, t, node_id) ==
    IF ~(t.is_str /\ t.v \in DOMAIN classes)
    THEN [raised |-> "none", value |-> ReturnsNone]
    ELSE LET node == Construct(classes[t.v], node_id)
         IN  IF node.raised
             THEN [raised |-> "TypeError", value |-> ReturnsNone]
             ELSE [raised |-> "none",
                   value |-> [returned |-> "instance", class |-> node.class,
                              node_id |-> node.node_id]]

\* what create_node returns for a catalog
create_node_result(classes, t, node_id) ==
    IF ~(t.is_str /\ t.v \in DOMAIN classes)
    THEN [raised |-> "none", value |-> ReturnsNone]
    ELSE LET node == Construct(classes[t.v], node_id)
         IN  IF node.raised
             THEN [raised |-> "none", value |-> ReturnsNone]
             ELSE [raised |-> "none",
                   value |-> [returned |-> "instance", class |-> node.class,
                              node_id |-> node.node_id]]

\* NodeRegistry.create_node
create_node(t, node_id) ==
    /\ pc = "idle"
    /\ LET r == create_node_result(_node_classes, t, node_id)
       IN  ret' = Ret("create_node", r.raised, r.value)
    /\ UNCHANGED regVars
    /\ UNCHANGED << engineVars, nodeVars, ctxVars, runVars, threadVars, callbacks, previous >>

InitRegistry ==
    /\ nodes = << >>
    /\ connections = << >>
    /\ max_execution_time = None
    /\ FreshRest

NextRegistry ==
    \/ \E t \in TypeArgs, c \in ClassArgs, category \in Categories :
          register_node(t, c, category)
    \/ \E t \in TypeArgs : unregister_node(t)
    \/ NodeRegistry_clear
    \/ \E t \in TypeArgs, node_id \in NodeIdArgs : create_node(t, node_id)

SpecRegistry == InitRegistry /\ [][NextRegistry]_vars

RegisterArgs == TypeArgs \X ClassArgs \X Categories

C20_RegistrationErrors ==
    [][ret'.op = "register_node" =>
          \A a \in RegisterArgs :
              register_node(a[1], a[2], a[3]) =>
                  /\ InvalidType(a[1]) =>
                        /\ ret'.raised = "ValueError"
                        /\ UNCHANGED << _node_classes, _categories, _metadata_cache >>
                  /\ (~InvalidType(a[1]) /\ ~issubclass_BaseNode(a[2])) =>
                        /\ ret'.raised = "TypeError"
                        /\ UNCHANGED << _node_classes, _categories, _metadata_cache >>
                  /\ (/\ ~InvalidType(a[1])
                      /\ a[1].v \notin DOMAIN _node_classes
                      /\ a[2] = "BrokenMetaNode") =>
                        /\ ret'.raised = "none"
                        /\ ret'.value = TRUE
                        /\ DOMAIN _node_classes' = DOMAIN _node_classes \cup {a[1].v}
                        /\ _node_classes'[a[1].v] = a[2]
                        /\ \A k \in DOMAIN _node_classes : _node_classes'[k] = _node_classes[k]
                        /\ a[3] \in DOMAIN _categories'
                        /\ a[1].v \in _categories'[a[3]]
                        /\ a[1].v \notin DOMAIN _metadata_cache'
                        /\ _metadata_cache' = _metadata_cache]_vars

\* a class whose get_metadata() fails is registered beside a class with
\* cached metadata
C20_Witness ==
    /\ ret.op = "register_node"
    /\ ret.value = TRUE
    /\ \E k \in DOMAIN _node_classes :
          /\ _node_classes[k] = "BrokenMetaNode"
          /\ k \notin DOMAIN _metadata_cache
    /\ _metadata_cache # EmptyMap

CreateArgs == TypeArgs \X NodeIdArgs

\* create_node neither raises nor returns anything but None or an instance
\* of the class registered for the type, None exactly when the type is not
\* registered or the constructor raises
CreateNodeNeverRaises ==
    \A a \in CreateArgs :
        LET r == create_node_result(_node_classes, a[1], a[2])
            registered == a[1].is_str /\ a[1].v \in DOMAIN _node_classes
        IN  /\ r.raised = "none"
            /\ r.value.returned = "None"
                  <=> (~registered \/ Construct(_node_classes[a[1].v], a[2]).raised)
            /\ r.value.returned = "instance" => r.value.class = _node_classes[a[1].v]

\* a create_node step leaves the registry as it was
CreateNodeKeepsRegistry ==
    [][ret'.op = "create_node" => UNCHANGED regVars]_vars

ThreadTypes == {TypeArg(TRUE, "t1"), TypeArg(TRUE, "t2")}

\* node classes whose get_metadata() returns
ThreadClasses == {"DummyNode", "OtherNode"}

\* search keywords: "t" is part of every type name, "dummy" only of the
\* display name in DummyNode's metadata
Keywords == {"t", "dummy"}

\* category arguments of the readers; "" stands for None
CategoryArgs == Categories \cup {""}

ThreadCalls ==
    {ThreadCall("register_node", t, c, g, "") :
        t \in ThreadTypes, c \in ThreadClasses, g \in Categories}
    \cup {ThreadCall("unregister_node", t, "", "", "") : t \in ThreadTypes}
    \cup {ThreadCall("clear", "", "", "", "")}
    \cup {ThreadCall("get_node_class", t, "", "", "") : t \in ThreadTypes}
    \cup {ThreadCall("get_node_metadata", t, "", "", "") : t \in ThreadTypes}
    \cup {ThreadCall("list_node_types", "", "", g, "") : g \in CategoryArgs}
    \cup {ThreadCall("search_nodes", "", "", g, k) : g \in CategoryArgs, k \in Keywords}

FirstStep(op) ==
    CASE op = "register_node" -> "register_check"
      [] op = "unregister_node" -> "unregister_check"
      [] op = "clear" -> "clear_classes"
      [] op = "search_nodes" -> "search_types"
      [] OTHER -> "read"

Registry == << _node_classes, _categories, _metadata_cache >>

At(th, where) == threads[th].pc = where

\* the thread moves on inside its critical section
Goto(th, where) == threads' = [threads EXCEPT ![th].pc = where]

\* end of the with-block: the lock is released and the call returns or raises
Leave(th, raised, value) ==
    /\ threads' = [threads EXCEPT ![th].pc = "done",
                                  ![th].result = [raised |-> raised, value |-> value]]
    /\ _lock' = "free"

OtherVarsUnchanged ==
    UNCHANGED << engineVars, nodeVars, ctxVars, runVars, callbacks, previous, ret >>

\* a thread calls a registry operation
Call(th, call) ==
    /\ At(th, "idle")
    /\ threads' = [threads EXCEPT ![th].pc = "acquire", ![th].call = call]
    /\ UNCHANGED << regVars, _lock >>
    /\ OtherVarsUnchanged

\* mutant: the lock is taken whether or not another thread holds it
Acquire_NotExclusive(th) ==
    /\ At(th, "acquire")
    /\ _lock' = th
    /\ Goto(th, FirstStep(threads[th].call.op))
    /\ UNCHANGED regVars
    /\ OtherVarsUnchanged

\* "with self._lock": the thread waits until no other thread holds the lock
Acquire(th) ==
    /\ At(th, "acquire")
    /\ _lock = "free"
    /\ _lock' = th
    /\ Goto(th, FirstStep(threads[th].call.op))
    /\ UNCHANGED regVars
    /\ OtherVarsUnchanged

\* register_node: argument checks and the test for an existing registration
RegisterCheck(th) ==
    /\ At(th, "register_check")
    /\ LET call == threads[th].call
       IN  IF InvalidType(call.t)
           THEN Leave(th, "ValueError", {})
           ELSE IF ~issubclass_BaseNode(call.c)
           THEN Leave(th, "TypeError", {})
           ELSE IF call.t.v \in DOMAIN _node_classes
           THEN IF _node_classes[call.t.v] # call.c
                THEN Leave(th, "ValueError", {})
                ELSE Leave(th, "none", {"False"})
           ELSE Goto(th, "register_class") /\ UNCHANGED _lock
    /\ UNCHANGED regVars
    /\ OtherVarsUnchanged

\* self._node_classes[node_type] = node_class
RegisterClass(th) ==
    /\ At(th, "register_class")
    /\ _node_classes' = Put(_node_classes, threads[th].call.t.v, threads[th].call.c)
    /\ Goto(th, "register_category")
    /\ UNCHANGED << _categories, _metadata_cache, _lock >>
    /\ OtherVarsUnchanged

\* self._categories[category].add(node_type)
RegisterCategory(th) ==
    /\ At(th, "register_category")
    /\ LET call == threads[th].call
       IN  _categories' = Put(_categories, call.category,
                              defaultdict_get(_categories, call.category) \cup {call.t.v})
    /\ Goto(th, "register_metadata")
    /\ UNCHANGED << _node_classes, _metadata_cache, _lock >>
    /\ OtherVarsUnchanged

\* the metadata is cached unless get_metadata() raises; return True
RegisterMetadata(th) ==
    /\ At(th, "register_metadata")
    /\ LET call == threads[th].call
       IN  _metadata_cache' =
               IF get_metadata(call.c).raised THEN _metadata_cache
               ELSE Put(_metadata_cache, call.t.v, get_metadata(call.c).metadata)
    /\ Leave(th, "none", {"True"})
    /\ UNCHANGED << _node_classes, _categories >>
    /\ OtherVarsUnchanged

UnregisterCheck(th) ==
    /\ At(th, "unregister_check")
    /\ IF threads[th].call.t.v \notin DOMAIN _node_classes
       THEN Leave(th, "none", {"False"})
       ELSE Goto(th, "unregister_category") /\ UNCHANGED _lock
    /\ UNCHANGED regVars
    /\ OtherVarsUnchanged

\* the type is removed from the category set that holds it
UnregisterCategory(th) ==
    /\ At(th, "unregister_category")
    /\ _categories' = [g \in DOMAIN _categories |->
                          _categories[g] \ {threads[th].call.t.v}]
    /\ Goto(th, "unregister_class")
    /\ UNCHANGED << _node_classes, _metadata_cache, _lock >>
    /\ OtherVarsUnchanged

\* del self._node_classes[node_type]; a key already gone raises KeyError
UnregisterClass(th) ==
    /\ At(th, "unregister_class")
    /\ IF threads[th].call.t.v \in DOMAIN _node_classes
       THEN /\ _node_classes' = Del(_node_classes, threads[th].call.t.v)
            /\ Goto(th, "unregister_metadata")
            /\ UNCHANGED _lock
       ELSE /\ Leave(th, "KeyError", {})
            /\ UNCHANGED _node_classes
    /\ UNCHANGED << _categories, _metadata_cache >>
    /\ OtherVarsUnchanged

UnregisterMetadata(th) ==
    /\ At(th, "unregister_metadata")
    /\ _metadata_cache' = Del(_metadata_cache, threads[th].call.t.v)
    /\ Leave(th, "none", {"True"})
    /\ UNCHANGED << _node_classes, _categories >>
    /\ OtherVarsUnchanged

ClearClasses(th) ==
    /\ At(th, "clear_classes")
    /\ _node_classes' = EmptyMap
    /\ Goto(th, "clear_categories")
    /\ UNCHANGED << _categories, _metadata_cache, _lock >>
    /\ OtherVarsUnchanged

ClearCategories(th) ==
    /\ At(th, "clear_categories")
    /\ _categories' = EmptyMap
    /\ Goto(th, "clear_metadata")
    /\ UNCHANGED << _node_classes, _metadata_cache, _lock >>
    /\ OtherVarsUnchanged

ClearMetadata(th) ==
    /\ At(th, "clear_metadata")
    /\ _metadata_cache' = EmptyMap
    /\ Leave(th, "none", {})
    /\ UNCHANGED << _node_classes, _categories >>
    /\ OtherVarsUnchanged

\* get_node_class, get_node_metadata and list_node_types read one structure
\* and return (a list is modelled by the set of its elements)
ReadOnce(th) ==
    /\ At(th, "read")
    /\ LET call == threads[th].call
           value ==
               CASE call.op = "get_node_class" ->
                        IF call.t.v \in DOMAIN _node_classes
                        THEN {_node_classes[call.t.v]} ELSE {}
                 [] call.op = "get_node_metadata" ->
                        IF call.t.v \in DOMAIN _metadata_cache
                        THEN {_metadata_cache[call.t.v]} ELSE {}
                 [] OTHER ->
                        IF call.category = "" THEN DOMAIN _node_classes
                        ELSE IF call.category \in DOMAIN _categories
                             THEN _categories[call.category] ELSE {}
       IN  /\ threads' = [threads EXCEPT ![th].pc = "done",
                                         ![th].seen = Registry,
                                         ![th].result = [raised |-> "none", value |-> value]]
           /\ _lock' = "free"
    /\ UNCHANGED regVars
    /\ OtherVarsUnchanged

\* search_nodes: the search range is taken from the category set or from
\* the catalog keys
SearchTypes(th) ==
    /\ At(th, "search_types")
    /\ LET call == threads[th].call
           search_types ==
               IF call.category # ""
               THEN IF call.category \in DOMAIN _categories
                    THEN _categories[call.category] ELSE {}
               ELSE DOMAIN _node_classes
       IN  threads' = [threads EXCEPT ![th].pc = "search_match",
                                      ![th].seen = Registry,
                                      ![th].result = [raised |-> "none",
                                                      value |-> search_types]]
    /\ UNCHANGED << regVars, _lock >>
    /\ OtherVarsUnchanged

\* search_nodes: each type of the range is matched by its name, else by the
\* metadata cached for it
SearchMatch(th) ==
    /\ At(th, "search_match")
    /\ LET call == threads[th].call
           search_types == threads[th].result.value
           matched ==
               {t \in search_types :
                   \/ call.keyword = "t"
                   \/ /\ t \in DOMAIN _metadata_cache
                      /\ call.keyword = "dummy"
                      /\ _metadata_cache[t] = "DummyNode"}
       IN  Leave(th, "none", matched)
    /\ UNCHANGED regVars
    /\ OtherVarsUnchanged

\* registries the threads start from: empty, or t2 registered
InitialRegistries ==
    {<< EmptyMap, EmptyMap, EmptyMap >>,
     << [k \in {"t2"} |-> "DummyNode"], [g \in {"custom"} |-> {"t2"}],
        [k \in {"t2"} |-> "DummyNode"] >>}

InitThreads ==
    /\ previous = NoPrevious
    /\ nodes = << >>
    /\ connections = << >>
    /\ max_execution_time = None
    /\ state = [n \in NodeIds |-> "READY"]
    /\ inputs = [n \in NodeIds |-> DefaultInputs(n)]
    /\ outputs = [n \in NodeIds |-> EmptyMap]
    /\ is_running = FALSE
    /\ is_cancelled = FALSE
    /\ is_paused = FALSE
    /\ pause_event = TRUE
    /\ waiter = "none"
    /\ node_outputs = EmptyMap
    /\ execution_history = << >>
    /\ failed_nodes = {}
    /\ nodes_executed = 0
    /\ nodes_failed = 0
    /\ deadline_passed = FALSE
    /\ events = << >>
    /\ callbacks = NoHandlers
    /\ invoked = << >>
    /\ pc = "idle"
    /\ execution_order = << >>
    /\ idx = 1
    /\ results = EmptyMap
    /\ ret = NoRet
    /\ pause_pending = FALSE
    /\ _lock = "free"
    /\ threads = [th \in Threads |-> IdleThread]
    /\ \E reg \in InitialRegistries :
          /\ _node_classes = reg[1]
          /\ _categories = reg[2]
          /\ _metadata_cache = reg[3]

NextThreads ==
    \E th \in Threads :
        \/ \E call \in ThreadCalls : Call(th, call)
        \/ Acquire(th)
        \/ RegisterCheck(th)
        \/ RegisterClass(th)
        \/ RegisterCategory(th)
        \/ RegisterMetadata(th)
        \/ UnregisterCheck(th)
        \/ UnregisterCategory(th)
        \/ UnregisterClass(th)
        \/ UnregisterMetadata(th)
        \/ ClearClasses(th)
        \/ ClearCategories(th)
        \/ ClearMetadata(th)
        \/ ReadOnce(th)
        \/ SearchTypes(th)
        \/ SearchMatch(th)

SpecThreads == InitThreads /\ [][NextThreads]_vars

\* the three structures of a registry describe the same set of types
ConsistentRegistry(reg) ==
    /\ DOMAIN reg[3] = DOMAIN reg[1]
    /\ UNION {reg[2][g] : g \in DOMAIN reg[2]} = DOMAIN reg[1]
    /\ \A t \in DOMAIN reg[1] : reg[3][t] = get_metadata(reg[1][t]).metadata

\* both threads have returned from registering type t with different classes
RegistrationRace(t) ==
    /\ \A th \in Threads :
          /\ At(th, "done")
          /\ threads[th].call.op = "register_node"
          /\ threads[th].call.t = t
    /\ threads["T1"].call.c # threads["T2"].call.c

\* C21: under every interleaving of registry calls made by several threads,
\* a reader never observes a type that is in the catalog but not in a
\* category set or the metadata cache (or the reverse), the registry does not
\* change between the two reads of search_nodes, and when two threads
\* register the same unregistered type with two different classes exactly
\* one call returns True and the other raises ValueError.
C21_CallsAreAtomic ==
    /\ \A th \in Threads :
          /\ threads[th].seen # << >> => ConsistentRegistry(threads[th].seen)
          /\ At(th, "search_match") => Registry = threads[th].seen
    /\ \A t \in ThreadTypes :
          (/\ \A reg \in InitialRegistries : t.v \notin DOMAIN reg[1]
           /\ RegistrationRace(t))
          => \E th \in Threads :
                /\ threads[th].result = [raised |-> "none", value |-> {"True"}]
                /\ \A other \in Threads \ {th} :
                      threads[other].result = [raised |-> "ValueError", value |-> {}]

\* two concurrent registrations of t1 with different classes have returned,
\* and the registry holds the class of the one that succeeded
C21_Witness ==
    /\ RegistrationRace(TypeArg(TRUE, "t1"))
    /\ "t1" \in DOMAIN _node_classes
    /\ \E th \in Threads : /\ threads[th].result.value = {"True"}
                           /\ _node_classes["t1"] = threads[th].call.c

(* ------------------------------------------------------------------ *)
(* Order of independent nodes                                          *)
(* ------------------------------------------------------------------ *)
\* every order in which distinct nodes can have been added
NodeOrders ==
    {ns \in UNION {[1..m -> NodeIds] : m \in 1..Cardinality(NodeIds)} :
        \A i, j \in DOMAIN ns : i # j => ns[i] # ns[j]}

\* engines with any insertion order and at most one connection
InitOrder ==
    /\ nodes \in NodeOrders
    /\ connections \in {<< >>} \cup
          {<< c >> : c \in {v \in ValidConnections :
                              {v.from_node_id, v.to_node_id} \subseteq Range(nodes)}}
    /\ max_execution_time = None
    /\ FreshRest

NextOrder ==
    \/ TopologicalSort
    \/ ExecuteWorkflow
    \/ LoopTop
    \/ PrepareNode
    \/ \E v \in Values : BodyReturns(v)
    \/ BodyRaises

SpecOrder == InitOrder /\ [][NextOrder]_vars

\* the nodes without an incoming connection, in insertion order
Roots(ns, cs) == SelectSeq(ns, LAMBDA n : InitInDegree(ns, cs)[n] = 0)

\* C23: the order returned by topological_sort, and the order a run uses, is
\* the one value determined by the node-insertion order and the connection
\* list; the nodes with no incoming connection appear in it in insertion
\* order; and a completed run over nodes with no connections has
\* execution_history equal to the insertion order.
C23_DeterministicOrder ==
    LET sorted == topological_sort(nodes, connections)
    IN  /\ sorted.raised = "none" =>
               SelectSeq(sorted.value, LAMBDA n : InitInDegree(nodes, connections)[n] = 0)
                   = Roots(nodes, connections)
        /\ ret.op = "topological_sort" => ret = sorted
        /\ pc \in {"loop", "prepare", "running", "returned"} =>
               execution_order = sorted.value
        /\ (pc = "returned" /\ connections = << >>) => execution_history = nodes

\* a run over B then A with no connections has returned with both in the
\* history, B first
C23_Witness ==
    /\ pc = "returned"
    /\ nodes = << "B", "A" >>
    /\ connections = << >>
    /\ execution_history = << "B", "A" >>

(* ------------------------------------------------------------------ *)
(* pause_execution / resume_execution outside a run                    *)
(* ------------------------------------------------------------------ *)
\* C29: while is_running is false, pause_execution() and
\* resume_execution() leave is_paused and the pause gate unchanged.
C29_PauseResumeOnlyWhileRunning ==
    [][(~is_running /\ (pause_execution \/ resume_execution))
          => UNCHANGED << is_paused, pause_event >>]_vars

(* ------------------------------------------------------------------ *)
(* ExecutionContext called directly                                    *)
(* ------------------------------------------------------------------ *)
\* event names passed to add_callback and trigger_callback by callers;
\* node_end is not a key of the callbacks dict
EventArgs == {"workflow_start", "workflow_complete", "workflow_error", "node_end"}

RECURSIVE SumLen(_, _)
SumLen(cbs, keys) ==
    IF keys = {} THEN 0
    ELSE LET k == CHOOSE x \in keys : TRUE
         IN  Len(cbs[k]) + SumLen(cbs, keys \ {k})

\* mutant: an event type that is not a key gets a list of its own
add_callback_result_AnyEvent(cbs, event_type, callback) ==
    [k \in (DOMAIN cbs) \cup {event_type} |->
        IF k = event_type THEN Append(HandlersOf(cbs, k), callback) ELSE cbs[k]]

\* ExecutionContext.add_callback: the dict after the call
add_callback_result(cbs, event_type, callback) ==
    IF event_type \in DOMAIN cbs
    THEN [cbs EXCEPT ![event_type] = Append(@, callback)]
    ELSE cbs

add_callback(event_type, callback) ==
    /\ pc = "idle"
    /\ SumLen(callbacks, DOMAIN callbacks) < MaxHandlers
    /\ callbacks' = add_callback_result(callbacks, event_type, callback)
    /\ ret' = Ret("add_callback", "none", event_type)
    /\ UNCHANGED << engineVars, nodeVars, ctxVars, runVars, regVars, threadVars, previous >>

\* a caller awaits context.trigger_callback(event_type)
TriggerCallback(event_type) ==
    /\ pc = "idle"
    /\ LET t == trigger_callback(callbacks, event_type, "", is_running)
       IN  /\ Len(invoked) + Len(t.invoked) <= MaxInvoked
           /\ invoked' = invoked \o t.invoked
           /\ ret' = Ret("trigger_callback",
                         IF t.raised THEN "Exception" ELSE "none", event_type)
    /\ UNCHANGED << engineVars, nodeVars, is_running, is_cancelled, is_paused,
                    pause_event, waiter, node_outputs, execution_history,
                    failed_nodes, nodes_executed, nodes_failed, max_execution_time,
                    deadline_passed, events, runVars, regVars, threadVars, callbacks, previous >>

\* mutant: the pause flag and the gate are left as they are
start_execution_KeepPaused ==
    /\ pc = "idle"
    /\ is_running' = TRUE
    /\ is_cancelled' = FALSE
    /\ nodes_executed' = 0
    /\ nodes_failed' = 0
    /\ deadline_passed' = FALSE
    /\ execution_history' = << >>
    /\ failed_nodes' = {}
    /\ pause_pending' = FALSE
    /\ ret' = Ret("start_execution", "none", "")
    /\ UNCHANGED << engineVars, nodeVars, node_outputs, max_execution_time, events,
                    invoked, pc, execution_order, idx, results, regVars,
                    threadVars, callbacks, previous, is_paused, pause_event, waiter >>

\* ExecutionContext.start_execution
start_execution ==
    /\ pc = "idle"
    /\ is_running' = TRUE
    /\ is_cancelled' = FALSE
    /\ is_paused' = FALSE
    /\ nodes_executed' = 0
    /\ nodes_failed' = 0
    /\ deadline_passed' = FALSE
    /\ execution_history' = << >>
    /\ failed_nodes' = {}
    /\ pause_event' = TRUE
    /\ waiter' = EventSetWaiter
    /\ pause_pending' = FALSE
    /\ ret' = Ret("start_execution", "none", "")
    /\ UNCHANGED << engineVars, nodeVars, node_outputs, max_execution_time, events,
                    invoked, pc, execution_order, idx, results, regVars,
                    threadVars, callbacks, previous >>

\* ExecutionContext.finish_execution(success)
finish_execution(success) ==
    /\ pc = "idle"
    /\ is_running' = FALSE
    /\ ret' = Ret("finish_execution", "none", IF success THEN "True" ELSE "False")
    /\ UNCHANGED << engineVars, nodeVars, is_cancelled, is_paused, pause_event,
                    waiter, node_outputs, execution_history, failed_nodes,
                    nodes_executed, nodes_failed, max_execution_time,
                    deadline_passed, events, invoked, runVars, regVars,
                    threadVars, callbacks, previous >>

\* mutant: a failure is entered in failed_nodes but not counted in the
\* history and the executed counter
record_node_execution_FailureUncounted(node_id, success) ==
    /\ pc = "idle"
    /\ Len(execution_history) < MaxHistory
    /\ IF success
       THEN /\ execution_history' = Append(execution_history, node_id)
            /\ nodes_executed' = nodes_executed + 1
            /\ UNCHANGED << failed_nodes, nodes_failed >>
       ELSE /\ failed_nodes' = failed_nodes \cup {node_id}
            /\ nodes_failed' = nodes_failed + 1
            /\ UNCHANGED << execution_history, nodes_executed >>
    /\ ret' = Ret("record_node_execution", "none", node_id)
    /\ UNCHANGED << engineVars, nodeVars, is_running, is_cancelled, is_paused,
                    pause_event, waiter, node_outputs, max_execution_time,
                    deadline_passed, events, invoked, runVars, regVars,
                    threadVars, callbacks, previous >>

\* ExecutionContext.record_node_execution(node_id, success)
record_node_execution(node_id, success) ==
    /\ pc = "idle"
    /\ Len(execution_history) < MaxHistory
    /\ execution_history' = Append(execution_history, node_id)
    /\ nodes_executed' = nodes_executed + 1
    /\ IF success
       THEN UNCHANGED << failed_nodes, nodes_failed >>
       ELSE /\ failed_nodes' = failed_nodes \cup {node_id}
            /\ nodes_failed' = nodes_failed + 1
    /\ ret' = Ret("record_node_execution", "none", node_id)
    /\ UNCHANGED << engineVars, nodeVars, is_running, is_cancelled, is_paused,
                    pause_event, waiter, node_outputs, max_execution_time,
                    deadline_passed, events, invoked, runVars, regVars,
                    threadVars, callbacks, previous >>

InitContext ==
    /\ nodes = << >>
    /\ connections = << >>
    /\ max_execution_time = None
    /\ FreshRest

\* the life-cycle methods of a context, called in any order
NextContext ==
    \/ start_execution
    \/ \E success \in BOOLEAN : finish_execution(success)
    \/ \E node_id \in NodeIds, success \in BOOLEAN :
          record_node_execution(node_id, success)
    \/ pause_execution
    \/ resume_execution
    \/ cancel_execution

SpecContext == InitContext /\ [][NextContext]_vars

\* handlers are registered and events triggered by the caller, around
\* start_execution and finish_execution
NextHandlers ==
    \/ \E event_type \in EventArgs, callback \in Handlers :
          add_callback(event_type, callback)
    \/ \E event_type \in EventArgs : TriggerCallback(event_type)
    \/ start_execution
    \/ \E success \in BOOLEAN : finish_execution(success)

SpecHandlers == InitContext /\ [][NextHandlers]_vars

\* the handlers of an event in registration order, as trigger_callback
\* must call them
Expected(cbs, event_type, running) ==
    [i \in DOMAIN HandlersOf(cbs, event_type) |->
        Invocation(HandlersOf(cbs, event_type)[i], event_type, "", running)]

\* C24: trigger_callback(event) calls every handler registered for the
\* event once, in registration order, whether or not handlers before it
\* raised, and does not raise itself.
C24_TriggerCallback ==
    /\ [](\A event_type \in EventArgs :
            LET t == trigger_callback(callbacks, event_type, "", is_running)
            IN  /\ ~t.raised
                /\ t.invoked = Expected(callbacks, event_type, is_running))
    /\ [][ret'.op = "trigger_callback" =>
            /\ ret'.raised = "none"
            /\ invoked' = invoked \o Expected(callbacks, ret'.value, is_running)]_vars

\* trigger_callback has called a raising handler and then the handler
\* registered after it
C24_Witness ==
    /\ ret.op = "trigger_callback"
    /\ ret.raised = "none"
    /\ HandlersOf(callbacks, ret.value) = << "h_raise", "h_ok" >>
    /\ Len(invoked) = 2
    /\ invoked[1].handler = "h_raise"
    /\ invoked[2].handler = "h_ok"

\* the nine event names the engine fires
RecognizedEvents == CallbackKeys \cup {"node_end", "workflow_end"}

\* C26: add_callback retains a handler registered for any of the nine
\* event names: after the call the handler is the last one of that event's
\* list.
C26_RecognizedEventsRetained ==
    /\ [](\A event_type \in RecognizedEvents, h \in Handlers :
            LET c == add_callback_result(callbacks, event_type, h)
            IN  /\ event_type \in DOMAIN c
                /\ c[event_type] = Append(HandlersOf(callbacks, event_type), h))
    /\ [][ret'.op = "add_callback" =>
            /\ ret'.value \in DOMAIN callbacks'
            /\ Len(callbacks'[ret'.value]) = Len(HandlersOf(callbacks, ret'.value)) + 1]_vars

\* C28: start_execution() leaves is_running true, is_cancelled and
\* is_paused false, the pause gate open, the execution history and the
\* failed-node set empty and the executed and failed counters at zero,
\* whatever the state it is called in.
C28_StartExecution ==
    [][start_execution =>
          (/\ is_running' /\ ~is_cancelled' /\ ~is_paused' /\ pause_event'
           /\ execution_history' = << >>
           /\ failed_nodes' = {}
           /\ nodes_executed' = 0
           /\ nodes_failed' = 0)]_vars

\* start_execution has returned and left the context running with a clean record
C28_Witness ==
    /\ ret.op = "start_execution"
    /\ is_running /\ ~is_cancelled /\ ~is_paused /\ pause_event
    /\ execution_history = << >>
    /\ nodes_executed = 0

\* one handler is registered for each of workflow_start,
\* workflow_complete and workflow_error
ThreeHandlers ==
    \A k \in {"workflow_start", "workflow_complete", "workflow_error"} :
        Len(callbacks[k]) = 1

\* C30: when finish_execution(True) follows start_execution on a context
\* with one handler each for workflow_start, workflow_complete and
\* workflow_error, the two calls have run the workflow_start handler (seeing
\* is_running true) and then the workflow_complete handler (seeing
\* is_running false), and not the workflow_error handler.
C30_StartFinishRunHandlers ==
    [][(/\ ret.op = "start_execution"
        /\ ret'.op = "finish_execution"
        /\ ret'.value = "True"
        /\ ThreeHandlers)
       => (/\ Len(invoked') >= 2
           /\ invoked'[Len(invoked') - 1] =
                  Invocation(callbacks["workflow_start"][1], "workflow_start", "", TRUE)
           /\ invoked'[Len(invoked')] =
                  Invocation(callbacks["workflow_complete"][1], "workflow_complete", "", FALSE)
           /\ \A i \in DOMAIN invoked' : invoked'[i].event_type # "workflow_error")]_vars

(* ------------------------------------------------------------------ *)
(* Runs with handlers registered                                       *)
(* ------------------------------------------------------------------ *)
\* the same handler list registered for every event of the callbacks dict
SameForAll(hs) == [k \in CallbackKeys |-> hs]

\* contexts built with add_callback before the run: no handlers, a raising
\* handler for every event, a raising handler followed by a returning one
HandlerConfigs ==
    {NoHandlers, SameForAll(<< "h_raise" >>), SameForAll(<< "h_raise", "h_ok" >>)}

InitCallbacks ==
    /\ previous = NoPrevious
    /\ nodes \in NodeOrders
    /\ connections \in {<< >>} \cup
          {<< c >> : c \in {v \in ValidConnections :
                              {v.from_node_id, v.to_node_id} \subseteq Range(nodes)}}
    /\ max_execution_time = None
    /\ state = [n \in NodeIds |-> "READY"]
    /\ inputs = [n \in NodeIds |-> DefaultInputs(n)]
    /\ outputs = [n \in NodeIds |-> EmptyMap]
    /\ is_running = FALSE
    /\ is_cancelled = FALSE
    /\ is_paused = FALSE
    /\ pause_event = TRUE
    /\ waiter = "none"
    /\ node_outputs = EmptyMap
    /\ execution_history = << >>
    /\ failed_nodes = {}
    /\ nodes_executed = 0
    /\ nodes_failed = 0
    /\ deadline_passed = FALSE
    /\ events = << >>
    /\ callbacks \in HandlerConfigs
    /\ invoked = << >>
    /\ pc = "idle"
    /\ execution_order = << >>
    /\ idx = 1
    /\ results = EmptyMap
    /\ ret = NoRet
    /\ pause_pending = FALSE
    /\ _node_classes = EmptyMap
    /\ _categories = EmptyMap
    /\ _metadata_cache = EmptyMap
    /\ _lock = "free"
    /\ threads = [th \in Threads |-> IdleThread]

NextCallbacks ==
    \/ ExecuteWorkflow
    \/ LoopTop
    \/ PrepareNode
    \/ \E v \in Values : BodyReturns(v)
    \/ BodyRaises

SpecCallbacks == InitCallbacks /\ [][NextCallbacks]_vars

\* what a node body does: it raises, or returns {x: v}
Raises == -1

BodyTables == [NodeIds -> Values \cup {Raises}]

\* how a run has ended: the result map or the error, the node states, the
\* execution history and the failed-node set
RunOutcome(r, st, history, failed) ==
    [ret |-> r, state |-> st, execution_history |-> history, failed_nodes |-> failed]

\* the scheduling loop of execute_workflow on a context without handlers,
\* from position i of the order, with node bodies behaving as in table b
RECURSIVE RunFrom(_, _, _, _, _, _, _, _, _)
RunFrom(cs, b, order, i, st, ins, outs, res, history) ==
    IF i > Len(order)
    THEN RunOutcome(Ret("execute_workflow", "none", res), st, history, {})
    ELSE LET n == order[i]
             r == _prepare_node_inputs(cs, n, ins[n], outs)
             failure(cause, s) ==
                 RunOutcome(Ret("execute_workflow", "WorkflowExecutionError",
                                Error(n, cause)),
                            s, Append(history, n), {n})
         IN  IF r.raised THEN failure("ValueError", st)
             ELSE IF ~validate_inputs(n, r.inputs)
             THEN failure("WorkflowExecutionError", st)
             ELSE IF b[n] = Raises
             THEN failure("Exception", [st EXCEPT ![n] = "FAILED"])
             ELSE LET produced == [k \in OutputNames(n) |-> b[n]]
                  IN  RunFrom(cs, b, order, i + 1, [st EXCEPT ![n] = "COMPLETED"],
                              [ins EXCEPT ![n] = r.inputs], Put(outs, n, produced),
                              Put(res, n, produced), Append(history, n))

\* the outcome of execute_workflow on a fresh context without handlers
RunWithoutHandlers(ns, cs, b) ==
    LET sorted == topological_sort(ns, cs)
        ready == [n \in NodeIds |-> "READY"]
    IN  IF sorted.raised # "none"
        THEN RunOutcome(Ret("execute_workflow", sorted.raised, Error("", "none")),
                        ready, << >>, {})
        ELSE RunFrom(cs, b, sorted.value, 1, ready,
                     [n \in NodeIds |-> DefaultInputs(n)], EmptyMap, EmptyMap, << >>)

\* C25: a run on a context whose handlers raise ends with the result map
\* or error, the node states, the execution history and the failed-node set
\* of a run of the same graph with the same node bodies on a context with
\* no handlers.
C25_HandlersDoNotInfluenceScheduling ==
    pc \in {"returned", "raised"} =>
        \E b \in BodyTables :
            RunOutcome(ret, state, execution_history, failed_nodes)
                = RunWithoutHandlers(nodes, connections, b)

\* a run of two nodes has returned although a raising handler was invoked
\* for every event it fired
C25_Witness ==
    /\ pc = "returned"
    /\ Len(execution_history) = 2
    /\ callbacks # NoHandlers
    /\ \A i \in DOMAIN events :
          events[i].event_type \in CallbackKeys =>
             \E j \in DOMAIN invoked :
                 /\ invoked[j].handler = "h_raise"
                 /\ invoked[j].event_type = events[i].event_type
                 /\ invoked[j].node_id = events[i].node_id

(* ------------------------------------------------------------------ *)
(* BaseNode.set_input / get_input / set_output / get_output            *)
(* ------------------------------------------------------------------ *)
\* input and output names passed by callers ("bad" is declared nowhere)
PortArgs == {"x", "y", "z", "bad"}

get_input(ins, name) == Get(ins, name)

get_output(outs, name) == Get(outs, name)

\* a caller invokes node.set_input(name, value)
SetInput(n, name, value) ==
    /\ pc = "idle"
    /\ LET r == set_input(inputs[n], n, name, value)
       IN  /\ inputs' = [inputs EXCEPT ![n] = r.inputs]
           /\ ret' = Ret("set_input", r.error, name)
    /\ UNCHANGED << engineVars, state, outputs, ctxVars, runVars, regVars,
                    threadVars, callbacks, previous >>

\* a caller invokes node.set_output(name, value): no check of the name
SetOutput(n, name, value) ==
    /\ pc = "idle"
    /\ outputs' = [outputs EXCEPT ![n] = Put(@, name, value)]
    /\ ret' = Ret("set_output", "none", name)
    /\ UNCHANGED << engineVars, state, inputs, ctxVars, runVars, regVars,
                    threadVars, callbacks, previous >>

\* two node instances, one of each class, outside any engine
InitPorts ==
    /\ nodes = << >>
    /\ connections = << >>
    /\ max_execution_time = None
    /\ FreshRest

NextPorts ==
    \/ \E n \in {"A", "C"}, name \in PortArgs, value \in Values :
          SetInput(n, name, value)
    \/ \E n \in {"A", "C"}, name \in {"x", "bad"}, value \in Values :
          SetOutput(n, name, value)

SpecPorts == InitPorts /\ [][NextPorts]_vars

\* C27: set_input with a declared name and a value passing validation
\* stores the value, get_input returning it, and set_output followed by
\* get_output returns the value; every other set_input raises ValueError
\* and leaves the inputs map unchanged.
C27_SetInputRoundTrip ==
    /\ [](\A n \in {"A", "C"}, name \in PortArgs, value \in Values :
            LET r == set_input(inputs[n], n, name, value)
                spec == _get_input_spec_by_name(n, name)
                passes == /\ spec # << >>
                          /\ ~validate_raises(spec[1], value)
                          /\ validate(spec[1], value)
            IN  /\ passes => r.error = "none" /\ get_input(r.inputs, name) = value
                /\ ~passes => r.error = "ValueError"
                /\ r.error # "none" => r.inputs = inputs[n])
    /\ [][ret'.op = "set_output" =>
            \E n \in {"A", "C"}, value \in Values :
                /\ outputs' = [outputs EXCEPT ![n] = Put(@, ret'.value, value)]
                /\ get_output(outputs'[n], ret'.value) = value]_vars

(* ------------------------------------------------------------------ *)
(* Order of the events of a run                                        *)
(* ------------------------------------------------------------------ *)
\* C32: every call to execute_workflow fires workflow_start first, before
\* the execution order is computed: whenever the call has ended or is under
\* way, workflow_start is the first event of the run and occurs once; in
\* particular a run aborted by a circular dependency fired workflow_start
\* before workflow_error.
C32_WorkflowStartFirst ==
    pc # "idle" =>
        /\ events # << >>
        /\ events[1] = Event("workflow_start", "")
        /\ Len(SelectSeq(events, LAMBDA e : e.event_type = "workflow_start")) = 1

\* C33: node_start is fired only after the node's inputs were gathered and
\* validated and its state was set to RUNNING: a node for which node_start
\* was fired is not READY any more, and a run that failed while gathering
\* or validating the inputs of a node fired no node_start for that node.
C33_NodeStartAfterValidation ==
    \A n \in NodeIds :
        (\E i \in 1..Len(events) : events[i] = Event("node_start", n)) =>
            /\ n \in Range(nodes)
            /\ state[n] # "READY"

\* number of events of one type fired in the current run
Fired(event_type) ==
    Len(SelectSeq(events, LAMBDA e : e.event_type = event_type))

\* C34: a call to execute_workflow that has ended fired exactly one of
\* workflow_complete and workflow_error, workflow_error exactly when the
\* call raised and workflow_complete when it returned (also after a
\* cancellation), and left is_running false; a call still under way has
\* fired neither.
C34_OneTerminalEvent ==
    /\ pc \in {"returned", "raised"} =>
            /\ Fired("workflow_complete") + Fired("workflow_error") = 1
            /\ Fired("workflow_error") = 1 <=> pc = "raised"
            /\ pc = "raised" <=> ret.raised # "none"
            /\ Fired("workflow_end") = 1
            /\ ~is_running
    /\ pc \notin {"returned", "raised"} =>
            Fired("workflow_complete") + Fired("workflow_error") = 0

C34_Witness ==
    /\ pc = "raised"
    /\ ret.raised = "WorkflowExecutionError"
    /\ Fired("workflow_error") = 1
    /\ Fired("node_complete") >= 1
    /\ ~is_running

\* C35: during a run the context holds an output for a node only after that
\* node completed in that run, also when the same context was used for an
\* earlier run: while execute_workflow is under way, every node with an
\* entry in node_outputs was recorded as executed, without failure, in the
\* history of the current run.
C35_OutputsOnlyAfterCompletion ==
    pc \in {"loop", "waiting", "prepare", "running"} =>
        \A n \in DOMAIN node_outputs :
            /\ n \in Range(execution_history)
            /\ n \notin failed_nodes

\* nodes of the engine whose state is RUNNING
RunningNodes == {n \in Range(nodes) : state[n] = "RUNNING"}

\* C36: within one run at most one node is RUNNING at any time, and the
\* scheduler does not reach the boundary checks of the next node (cancel
\* test, pause gate, time limit) before the body of the current node has
\* returned or raised: a node is RUNNING exactly while the scheduler awaits
\* its body, and it is the node at the current position of the order.
C36_OneNodeRunning ==
    /\ Cardinality(RunningNodes) <= 1
    /\ pc = "running" => RunningNodes = {execution_order[idx]}
    /\ pc # "running" => RunningNodes = {}

C36_Witness ==
    /\ pc = "running"
    /\ idx = 2
    /\ state[execution_order[1]] = "COMPLETED"
    /\ RunningNodes = {execution_order[2]}

(* ------------------------------------------------------------------ *)
(* Flags and counters of the execution context                         *)
(* ------------------------------------------------------------------ *)
\* wait_if_paused would suspend its caller: the context is paused and the
\* gate is closed
WaitBlocks == is_paused /\ ~pause_event

\* C37: under any order of start_execution, pause_execution,
\* resume_execution, cancel_execution and finish_execution a cancelled
\* context is not running and its pause gate is open, a closed gate implies
\* is_paused, wait_if_paused does not block on a cancelled context, and
\* resume_execution on a paused, cancelled context leaves the gate open.
C37_CancelledGateOpen ==
    /\ [](is_cancelled => (~is_running /\ pause_event /\ ~WaitBlocks))
    /\ [](~pause_event => is_paused)
    /\ [][(is_cancelled /\ is_paused /\ resume_execution) => pause_event']_vars

\* a context cancelled while it was paused
C37_Witness ==
    /\ is_cancelled
    /\ is_paused
    /\ pause_event
    /\ ~is_running

\* C38: the counters of the context agree with its records: nodes_executed
\* is the length of execution_history, nodes_failed counts the failure
\* records (at least one per member of failed_nodes, at most
\* nodes_executed), every id in failed_nodes occurs in execution_history;
\* a failure record adds one to nodes_failed and its id to failed_nodes, a
\* successful record changes neither.
C38_CountersMatchHistory ==
    /\ [](/\ nodes_executed = Len(execution_history)
          /\ nodes_failed <= nodes_executed
          /\ Cardinality(failed_nodes) <= nodes_failed
          /\ failed_nodes \subseteq Range(execution_history)
          /\ (nodes_failed = 0 <=> failed_nodes = {}))
    /\ [][\A node_id \in NodeIds :
            /\ record_node_execution(node_id, TRUE) =>
                   UNCHANGED << failed_nodes, nodes_failed >>
            /\ record_node_execution(node_id, FALSE) =>
                   /\ nodes_failed' = nodes_failed + 1
                   /\ failed_nodes' = failed_nodes \cup {node_id}]_vars

\* the same node failed twice: two failure records, one failed id
C38_Witness ==
    /\ nodes_failed = 2
    /\ Cardinality(failed_nodes) = 1
    /\ nodes_executed = 2
    /\ Len(execution_history) = 2

(* ------------------------------------------------------------------ *)
(* Consistency of the registry's three structures                      *)
(* ------------------------------------------------------------------ *)
\* NodeRegistry.list_node_types; the category "" stands for None
list_node_types(classes, cats, category) ==
    IF category = "" THEN DOMAIN classes ELSE defaultdict_get(cats, category)

\* NodeRegistry.search_nodes: the types of the search range matched by
\* their name, else by the metadata cached for them
search_nodes(classes, cats, cache, keyword, category) ==
    LET search_types ==
            IF category # "" THEN defaultdict_get(cats, category)
            ELSE DOMAIN classes
    IN  {t \in search_types :
            \/ keyword = "t"
            \/ /\ t \in DOMAIN cache
               /\ keyword = "dummy"
               /\ cache[t] = "DummyNode"}

\* C40: after any sequence of register_node, unregister_node and clear
\* every registered type is in exactly one category set, the category sets
\* hold registered types only, every key of the metadata cache is a
\* registered type, and list_node_types and search_nodes return registered
\* types only.
C40_RegistryConsistent ==
    /\ \A t \in DOMAIN _node_classes :
          Cardinality({g \in DOMAIN _categories : t \in _categories[g]}) = 1
    /\ \A g \in DOMAIN _categories : _categories[g] \subseteq DOMAIN _node_classes
    /\ DOMAIN _metadata_cache \subseteq DOMAIN _node_classes
    /\ \A category \in CategoryArgs :
          /\ list_node_types(_node_classes, _categories, category)
                 \subseteq DOMAIN _node_classes
          /\ \A keyword \in Keywords :
                 search_nodes(_node_classes, _categories, _metadata_cache,
                              keyword, category) \subseteq DOMAIN _node_classes

\* one type was unregistered and left an empty category set behind, the
\* other is registered without cached metadata
C40_Witness ==
    /\ ret.op = "unregister_node"
    /\ DOMAIN _node_classes = {"t2"}
    /\ DOMAIN _categories = {"custom", "test"}
    /\ _categories["custom"] = {}
    /\ _categories["test"] = {"t2"}
    /\ _metadata_cache = EmptyMap
    /\ search_nodes(_node_classes, _categories, _metadata_cache, "t", "test") = {"t2"}

(* ------------------------------------------------------------------ *)
(* workflow_loader: build_engine_from_workflow                         *)
(* ------------------------------------------------------------------ *)
WorkflowValidationError == "WorkflowValidationError"

\* values of "workflow_id": absent (None), "", "wf"
WorkflowIdArgs == {NodeIdArg("None", ""), NodeIdArg("str", ""), NodeIdArg("str", "wf")}

\* values of a node's "id": absent, "", "A", "C"
LoaderIdArgs == {NodeIdArg("None", ""), NodeIdArg("str", ""), NodeIdArg("str", "A"),
                 NodeIdArg("str", "C")}

\* values of a node's "params": absent, or {"z": 2} (z is an input of C
\* only, and 2 exceeds its max_value)
ParamArgs == {EmptyMap, Put(EmptyMap, "z", 2)}

NodeDef(id, type, params) == [id |-> id, type |-> type, params |-> params]

NodeDefs == {NodeDef(id, type, params) :
                id \in LoaderIdArgs, type \in TypeArgs, params \in ParamArgs}

\* edge endpoints: the strings "A", "B", "C" and the list ["A"]
EndpointArgs == {NodeIdArg("str", "A"), NodeIdArg("str", "B"), NodeIdArg("str", "C"),
                 NodeIdArg("list", "A")}

\* "edges": none, one edge (also one with a single element), or two edges
\* between A and C
EdgeLists ==
    {<< >>}
        \cup {<< << frm >> >> : frm \in {NodeIdArg("str", "A")}}
        \cup {<< << frm, to >> >> : frm \in EndpointArgs, to \in EndpointArgs}
        \cup {<< << f1, t1 >>, << f2, t2 >> >> :
                 f1 \in {NodeIdArg("str", "A")}, t1 \in {NodeIdArg("str", "C")},
                 f2 \in {NodeIdArg("str", "A"), NodeIdArg("str", "C")},
                 t2 \in {NodeIdArg("str", "A"), NodeIdArg("str", "C")}}

\* "nodes": none, one or two node definitions
NodeDefLists ==
    {<< >>} \cup {<< d >> : d \in NodeDefs} \cup {<< d, e >> : d \in NodeDefs, e \in NodeDefs}

Workflows ==
    {[workflow_id |-> w, nodes |-> ns, edges |-> es] :
        w \in WorkflowIdArgs, ns \in NodeDefLists, es \in EdgeLists}

\* _require_str passes: a non-empty str
_require_str(value) == value.kind = "str" /\ value.v # ""

\* the loop of validate_workflow_dict over the node definitions
RECURSIVE validate_nodes(_, _)
validate_nodes(defs, seen_ids) ==
    IF defs = << >>
    THEN [raised |-> "none", seen_ids |-> seen_ids]
    ELSE LET n == Head(defs)
         IN  IF \/ ~_require_str(n.id)
                \/ ~(n.type.is_str /\ n.type.v # "")
                \/ n.id.v \in seen_ids
             THEN [raised |-> WorkflowValidationError, seen_ids |-> seen_ids]
             ELSE validate_nodes(Tail(defs), seen_ids \cup {n.id.v})

\* "x not in seen_ids": hashing a list raises TypeError
NotInSeen(x, seen_ids) ==
    IF x.kind = "list" THEN "TypeError"
    ELSE IF x.kind = "str" /\ x.v \in seen_ids THEN "none"
    ELSE WorkflowValidationError

\* the loop of validate_workflow_dict over the edges
RECURSIVE validate_edges(_, _)
validate_edges(edges, seen_ids) ==
    IF edges = << >> THEN "none"
    ELSE LET e == Head(edges)
         IN  IF Len(e) # Len(<< "frm", "to" >>) THEN WorkflowValidationError
             ELSE IF NotInSeen(e[1], seen_ids) # "none" THEN NotInSeen(e[1], seen_ids)
             ELSE IF NotInSeen(e[2], seen_ids) # "none" THEN NotInSeen(e[2], seen_ids)
             ELSE validate_edges(Tail(edges), seen_ids)

validate_workflow_dict(data) ==
    IF ~_require_str(data.workflow_id) THEN WorkflowValidationError
    ELSE LET v == validate_nodes(data.nodes, {})
         IN  IF v.raised # "none" THEN v.raised
             ELSE validate_edges(data.edges, v.seen_ids)

\* _set_params_to_node: the keys naming a declared input are written with
\* set_input, the others are skipped
RECURSIVE _set_params_to_node(_, _, _)
_set_params_to_node(n, ins, params) ==
    IF DOMAIN params = {}
    THEN [raised |-> FALSE, error |-> "none", inputs |-> ins]
    ELSE LET k == CHOOSE key \in DOMAIN params : TRUE
             rest == [key \in (DOMAIN params) \ {k} |-> params[key]]
         IN  IF k \notin InputNames(n)
             THEN _set_params_to_node(n, ins, rest)
             ELSE LET r == set_input(ins, n, k, params[k])
                  IN  IF r.raised THEN r
                      ELSE _set_params_to_node(n, r.inputs, rest)

\* _resolve_single_port: no preferred name is declared by the node classes
\* of the model, so the first port of the spec is taken
_resolve_single_port(n, kind) ==
    IF kind = "input" THEN get_input_spec(n)[1].name ELSE get_output_spec(n)[1]

\* the node loop of build_engine_from_workflow
RECURSIVE CreateNodes(_, _, _, _)
CreateNodes(defs, classes, ns, ins) ==
    IF defs = << >>
    THEN [raised |-> "none", nodes |-> ns, inputs |-> ins]
    ELSE LET n == Head(defs)
             node == create_node_result(classes, n.type, n.id).value
         IN  IF node.returned = "None"
             THEN [raised |-> WorkflowValidationError, nodes |-> ns, inputs |-> ins]
             ELSE LET id == node.node_id.v
                      p == _set_params_to_node(id, DefaultInputs(id), n.params)
                  IN  IF p.raised
                      THEN [raised |-> p.error, nodes |-> ns, inputs |-> ins]
                      ELSE IF id \in Range(ns)
                      THEN [raised |-> "ValueError", nodes |-> ns, inputs |-> ins]
                      ELSE CreateNodes(Tail(defs), classes, Append(ns, id),
                                       [ins EXCEPT ![id] = p.inputs])

\* the edge loop of build_engine_from_workflow
RECURSIVE ConnectEdges(_, _, _)
ConnectEdges(edges, ns, cs) ==
    IF edges = << >>
    THEN [raised |-> "none", connections |-> cs]
    ELSE LET frm == Head(edges)[1].v
             to == Head(edges)[2].v
             r == connect_result(ns, cs, frm, _resolve_single_port(frm, "output"),
                                 to, _resolve_single_port(to, "input"))
         IN  IF r.raised # "none"
             THEN [raised |-> r.raised, connections |-> cs]
             ELSE ConnectEdges(Tail(edges), ns, r.connections)

\* what build_engine_from_workflow does for a description and a catalog:
\* the exception raised, or the engine returned
build_engine_result(data, classes, ins) ==
    LET v == validate_workflow_dict(data)
        created == CreateNodes(data.nodes, classes, << >>, ins)
        connected == ConnectEdges(data.edges, created.nodes, << >>)
        NoEngine(raised) == [raised |-> raised, nodes |-> << >>,
                             connections |-> << >>, inputs |-> ins]
    IN  IF v # "none" THEN NoEngine(v)
        ELSE IF created.raised # "none" THEN NoEngine(created.raised)
        ELSE IF connected.raised # "none" THEN NoEngine(connected.raised)
        ELSE [raised |-> "none", nodes |-> created.nodes,
              connections |-> connected.connections, inputs |-> created.inputs]

\* build_engine_from_workflow(data, registry); ret.value is the description
build_engine_from_workflow(data) ==
    /\ pc = "idle"
    /\ LET r == build_engine_result(data, _node_classes, inputs)
       IN  /\ nodes' = r.nodes
           /\ connections' = r.connections
           /\ inputs' = r.inputs
           /\ ret' = Ret("build_engine_from_workflow", r.raised, data)
    /\ state' = [n \in NodeIds |-> "READY"]
    /\ outputs' = [n \in NodeIds |-> EmptyMap]
    /\ UNCHANGED << ctxVars, runVars, regVars, threadVars, callbacks, previous >>

\* registries the loader is given: t1 is a node class; t2 is not
\* registered, or a class that cannot be instantiated, or a node class
LoaderRegistries ==
    {Put(EmptyMap, "t1", "DummyNode"),
     Put(Put(EmptyMap, "t1", "DummyNode"), "t2", "AbstractNode"),
     Put(Put(EmptyMap, "t1", "DummyNode"), "t2", "OtherNode")}

InitLoader ==
    /\ previous = NoPrevious
    /\ nodes = << >>
    /\ connections = << >>
    /\ max_execution_time = None
    /\ state = [n \in NodeIds |-> "READY"]
    /\ inputs = [n \in NodeIds |-> DefaultInputs(n)]
    /\ outputs = [n \in NodeIds |-> EmptyMap]
    /\ is_running = FALSE
    /\ is_cancelled = FALSE
    /\ is_paused = FALSE
    /\ pause_event = TRUE
    /\ waiter = "none"
    /\ node_outputs = EmptyMap
    /\ execution_history = << >>
    /\ failed_nodes = {}
    /\ nodes_executed = 0
    /\ nodes_failed = 0
    /\ deadline_passed = FALSE
    /\ events = << >>
    /\ invoked = << >>
    /\ pc = "idle"
    /\ execution_order = << >>
    /\ idx = 1
    /\ results = EmptyMap
    /\ ret = NoRet
    /\ pause_pending = FALSE
    /\ callbacks = NoHandlers
    /\ _lock = "free"
    /\ threads = [th \in Threads |-> IdleThread]
    /\ _node_classes \in LoaderRegistries
    /\ _categories = Put(EmptyMap, "custom", DOMAIN _node_classes)
    /\ _metadata_cache = [t \in DOMAIN _node_classes |-> _node_classes[t]]

\* one call on a registry: every call builds an engine of its own
NextLoader ==
    /\ ret.op = "none"
    /\ \E data \in Workflows : build_engine_from_workflow(data)

SpecLoader == InitLoader /\ [][NextLoader]_vars

\* ids declared by the node definitions of a description
DeclaredIds(data) ==
    {data.nodes[i].id.v : i \in {j \in DOMAIN data.nodes : _require_str(data.nodes[j].id)}}

\* a description build_engine_from_workflow has to reject: workflow_id
\* absent or empty, a node without a non-empty string id or type, two nodes
\* with one id, an edge endpoint that is not a declared id, or a type the
\* registry cannot create
Rejected(data, classes) ==
    \/ ~_require_str(data.workflow_id)
    \/ \E i \in DOMAIN data.nodes :
          \/ ~_require_str(data.nodes[i].id)
          \/ ~(data.nodes[i].type.is_str /\ data.nodes[i].type.v # "")
          \/ \E j \in DOMAIN data.nodes : j # i /\ data.nodes[j].id = data.nodes[i].id
          \/ create_node_result(classes, data.nodes[i].type,
                                data.nodes[i].id).value.returned = "None"
    \/ \E i \in DOMAIN data.edges : \E k \in DOMAIN data.edges[i] :
          ~(data.edges[i][k].kind = "str" /\ data.edges[i][k].v \in DeclaredIds(data))

\* C31: build_engine_from_workflow raises WorkflowValidationError for a
\* description whose workflow_id is missing or empty, that has a node
\* without a non-empty string id or type, duplicate ids, an edge endpoint
\* that is not a declared node id, or a node type the registry cannot
\* create; whenever it returns, the node ids of the engine are exactly the
\* declared ids and every declared edge is a connection of the engine.
C31_LoaderValidation ==
    ret.op = "build_engine_from_workflow" =>
        /\ Rejected(ret.value, _node_classes) => ret.raised = WorkflowValidationError
        /\ ret.raised = "none" =>
              /\ Range(nodes) = DeclaredIds(ret.value)
              /\ \A i \in DOMAIN ret.value.edges :
                    \E c \in DOMAIN connections :
                       /\ connections[c].from_node_id = ret.value.edges[i][1].v
                       /\ connections[c].to_node_id = ret.value.edges[i][2].v

(* ------------------------------------------------------------------ *)
(* Repeated runs of one engine, each on a fresh context                *)
(* ------------------------------------------------------------------ *)
\* a deterministic node body: it returns its input y plus one (1 when y
\* is absent) on output x, and raises when y is the largest value
ExecuteBody(ins) ==
    IF Get(ins, "y") = MaxValue THEN Raises ELSE Get(ins, "y") + 1

\* node.execute ends on the worker pool as the body determines
Body ==
    /\ pc = "running"
    /\ LET v == ExecuteBody(inputs[execution_order[idx]])
       IN  IF v = Raises THEN BodyRaises ELSE BodyReturns(v)

\* the caller keeps the outcome of the run that ended and prepares another
\* run of the same engine with a new ExecutionContext
RunAgain ==
    /\ pc \in {"returned", "raised"}
    /\ ~previous.ended
    /\ previous' = [ended |-> TRUE, cancelled |-> is_cancelled, raised |-> ret.raised,
                    results |-> results,
                    state |-> state, execution_history |-> execution_history]
    /\ is_running' = FALSE
    /\ is_cancelled' = FALSE
    /\ is_paused' = FALSE
    /\ pause_event' = TRUE
    /\ waiter' = "none"
    /\ node_outputs' = EmptyMap
    /\ execution_history' = << >>
    /\ failed_nodes' = {}
    /\ nodes_executed' = 0
    /\ nodes_failed' = 0
    /\ deadline_passed' = FALSE
    /\ events' = << >>
    /\ invoked' = << >>
    /\ pause_pending' = FALSE
    /\ pc' = "idle"
    /\ UNCHANGED << engineVars, nodeVars, max_execution_time, execution_order, idx,
                    results, ret, regVars, threadVars, callbacks >>

\* three nodes, at most one connection, no time limit
InitRerun ==
    /\ nodes = << "A", "B", "C" >>
    /\ connections \in {<< >>} \cup {<< c >> : c \in ValidConnections}
    /\ max_execution_time = None
    /\ FreshRest

NextRerun ==
    \/ ExecuteWorkflow
    \/ LoopTop
    \/ PrepareNode
    \/ Body
    \/ cancel_execution
    \/ RunAgain

SpecRerun == InitRerun /\ [][NextRerun]_vars

\* the loop of execute_workflow on nodes that were never run, without
\* cancellation: the result map, node states and history at its end
RECURSIVE FirstRun(_, _, _, _, _, _)
FirstRun(order, ins, outs, res, st, hist) ==
    IF order = << >>
    THEN [raised |-> "none", results |-> res, state |-> st, execution_history |-> hist]
    ELSE LET n == Head(order)
             r == _prepare_node_inputs(connections, n, ins[n], outs)
             v == ExecuteBody(r.inputs)
             Failed(to) == [raised |-> "WorkflowExecutionError", results |-> res,
                            state |-> [st EXCEPT ![n] = to],
                            execution_history |-> Append(hist, n)]
         IN  IF r.raised \/ ~validate_inputs(n, r.inputs) THEN Failed("READY")
             ELSE IF v = Raises THEN Failed("FAILED")
             ELSE LET o == [k \in OutputNames(n) |-> v]
                  IN  FirstRun(Tail(order), [ins EXCEPT ![n] = r.inputs],
                               Put(outs, n, o), Put(res, n, o),
                               [st EXCEPT ![n] = "COMPLETED"], Append(hist, n))

\* what a first run of the engine yields when it is not cancelled
Reference ==
    LET sorted == topological_sort(nodes, connections)
    IN  IF sorted.raised # "none"
        THEN [raised |-> sorted.raised, results |-> EmptyMap,
              state |-> [n \in NodeIds |-> "READY"], execution_history |-> << >>]
        ELSE FirstRun(sorted.value, [n \in NodeIds |-> DefaultInputs(n)], EmptyMap,
                      EmptyMap, [n \in NodeIds |-> "READY"], << >>)

\* the outcome of the run that has just ended
Outcome ==
    [raised |-> ret.raised, results |-> results, state |-> state,
     execution_history |-> execution_history]

Ended == pc \in {"returned", "raised"}

\* C39 as stated: the second run of an engine yields the same result map,
\* final node states, history and exception as the first, whether the
\* first run completed, failed or was cancelled part-way.
C39_SecondRunSameAsFirst ==
    (previous.ended /\ Ended /\ ~is_cancelled) =>
        Outcome = [raised |-> previous.raised, results |-> previous.results,
                   state |-> previous.state,
                   execution_history |-> previous.execution_history]

\* C39 (amended): a run that ends without having been cancelled yields the
\* result map, final node states, history and exception that a first run
\* of the engine on fresh nodes yields, whether it is the first run or
\* follows a run that completed, failed or was cancelled part-way; so the
\* second run repeats the first when the first was not cancelled; and at
\* the end of any run a node that was not executed in it is READY with no
\* outputs.
C39_RerunReproducible ==
    /\ (Ended /\ ~is_cancelled) => Outcome = Reference
    /\ (previous.ended /\ ~previous.cancelled /\ Ended /\ ~is_cancelled) =>
          /\ results = previous.results
          /\ state = previous.state
          /\ execution_history = previous.execution_history
          /\ ret.raised = previous.raised
    /\ Ended =>
          \A n \in Range(nodes) \ Range(execution_history) :
              state[n] = "READY" /\ outputs[n] = EmptyMap

\* the first run was cancelled after its first node, the second run
\* completed all three
C39_Witness ==
    /\ previous.ended
    /\ previous.cancelled
    /\ Len(previous.execution_history) = 1
    /\ pc = "returned"
    /\ ~is_cancelled
    /\ Len(execution_history) = Len(nodes)
    /\ Outcome = Reference

====
